---- MODULE Spec2Model ----
(***************************************************************************)
(* Specky spec engine: the six-phase pipeline orchestrator                 *)
(* (PipelineOrchestrator), the retrying agent invoker (BaseAgent) and the  *)
(* quality aggregator (validateAll).                                       *)
(*                                                                         *)
(* Three specifications share the module:                                  *)
(*   Spec          one run of PipelineOrchestrator.start() with cancel()   *)
(*   SpecInvoker   one call of BaseAgent.execute()                         *)
(*   SpecValidate  validateAll() over an artifact built piece by piece     *)
(***************************************************************************)
EXTENDS Integers, Sequences, FiniteSets, TLC

VARIABLES
    \* ---- PipelineOrchestrator ----
    config,         \* IterationConfig (this.config)
    status,         \* state.status
    current_phase,  \* state.current_phase
    phases,         \* state.phases : phase -> PhaseState
    total_iterations, \* state.total_iterations
    cancelled,      \* this.cancelled
    stack,          \* call stack of the async functions of the run
    exc,            \* exception travelling up the stack (NoError if none)
    result,         \* outcome of the promise returned by start()
    evCount,        \* number of events emitted, by type
    lastEvent,      \* the most recent emitted event
    calls,          \* agents: number of execute() invocations, by phase
    sigs,           \* agents: summary of the signals returned so far
    failure,        \* agents: the first rejected execute()
    cancelReq,      \* caller: cancel() was requested while the run was in
                    \* progress
    lateCalls,      \* agents: an execute() was started after a rejected one /
                    \* after cancel() was requested during the run
    \* ---- BaseAgent ----
    retryConfig,    \* this.retryConfig
    agent,          \* locals of execute()/executeWithRetry()
    \* ---- validateAll ----
    artifact,       \* ValidationInput being assembled
    report,         \* QualityReport returned by validateAll (or NoReport)
    lastIndex,      \* lastIndex of the global regexes of INCOMPLETE_PATTERNS
    \* ---- the caller's side of the PipelineOrchestrator ----
    eventHandlers,  \* this.eventHandlers
    emitLoop,       \* emit(): the event and the position of its for loop
    emitted,        \* per emitted event, the listeners registered at the time
    deliveries,     \* listeners: the handler calls made so far, in order
    snapshot,       \* caller: the object returned by getState()
    \* ---- SpecEngine and verifyDecisions ----
    engine,         \* caller of SpecEngine: the SpecPack it holds and the
                    \* last call it made
    cacheFile,      \* .specky/cache.json: the queries it has entries for
    verify          \* locals of verifyDecisions()

orchVars == <<config, status, current_phase, phases, total_iterations,
              cancelled, stack, exc, result, evCount, lastEvent, calls, sigs,
              failure, cancelReq, lateCalls>>
invokerVars == <<retryConfig, agent>>
validateVars == <<artifact, report, lastIndex>>
callerVars == <<eventHandlers, emitLoop, emitted, deliveries, snapshot>>
toolVars == <<engine, cacheFile, verify>>
vars == <<orchVars, invokerVars, validateVars, callerVars, toolVars>>

----------------------------------------------------------------------------
(***************************************************************************)
(* Bounds of the model                                                     *)
(***************************************************************************)
MaxChallengeBudget == 2     \* largest discovery_challenge_max
MaxDecompositionBudget == 2 \* largest design_decomposition_max
MaxValidationCap == 2       \* largest finite decomposition_validation_max
MaxValidationCalls == 2     \* validation calls explored under 'unlimited'
MaxRetriesBound == 3        \* largest RetryConfig.maxRetries
MaxBaseDelay == 3           \* largest RetryConfig.baseDelayMs
MaxDelayCap == 8            \* largest RetryConfig.maxDelayMs
MaxArtifactSize == 2        \* largest number of pieces of a ValidationInput
MaxDagKeys == 3
MaxStories == 2             \* largest number of stories
MaxDecisions == 2           \* largest number of design decisions
MaxSchemas == 2             \* largest number of schemas
MaxListeners == 2           \* largest number of registered listeners
MaxEmits == 3               \* largest number of events emitted to them
MaxRuns == 2                \* largest number of start() calls on one orchestrator
MaxTasks == 3               \* largest number of tasks of a SpecPack
MaxQueries == 2             \* largest number of decisions to verify

Min(a, b) == IF a <= b THEN a ELSE b
Max(a, b) == IF a >= b THEN a ELSE b

----------------------------------------------------------------------------
(***************************************************************************)
(* PipelineOrchestrator                                                    *)
(***************************************************************************)
Phases == {"discovery", "challenge", "design", "decomposition", "validation",
           "synthesis"}

\* (faulty variant: decomposition called before design)
PhaseOrder_DecompositionFirst ==
    <<"discovery", "challenge", "decomposition", "design", "validation",
      "synthesis">>

\* the order in which start() calls the phase runners
PhaseOrder == <<"discovery", "challenge", "design", "decomposition",
                "validation", "synthesis">>

PhaseStatus == {"pending", "running", "iterating", "completed", "failed"}

NoError == "none"
AgentErrors == {"agent error A", "agent error B"}
CancelledError == "Pipeline cancelled"
CapError == "Failed to reach 100% confidence"
TypeErrorMsg == "TypeError: cannot read properties of undefined"

\* an agent output: ver numbers the execute() call that produced it (0: no
\* output yet), sig is the loop signal of the phase (needs_discovery_loop,
\* has_non_atomic_tasks, passes), tgt the non-empty lists of loop_targets,
\* score the quality_report.confidence_score of a validation output, failing
\* the category of quality_report.breakdown that scores below 100
NoOutput ==
    [ver |-> 0, sig |-> FALSE, tgt |-> "none", score |-> 0, failing |-> "none"]
LoopTargets == {"none", "design", "decomposition", "both"}

\* the confidence scores told apart: every score of 0..100 passes the shape
\* check of the ValidatorAgent, whatever the value of passes
ConfidenceScores == {50, 100}

\* a phase input: the versions of the outputs it was built from
\* (user: the DiscoveryInput given to start())
NoInput == [user |-> 0, discovery |-> 0, challenge |-> 0, design |-> 0,
            decomposition |-> 0, validation |-> 0]

EventTypes == {"phase_started", "phase_completed", "phase_failed",
               "iteration_started", "loop_back", "pipeline_completed",
               "pipeline_failed"}

\* the value 'unlimited' of decomposition_validation_max
Unlimited == -1

IterationConfigs ==
    [discovery_challenge_max : 0..MaxChallengeBudget,
     design_decomposition_max : 0..MaxDecompositionBudget,
     decomposition_validation_max : (0..MaxValidationCap) \cup {Unlimited},
     min_confidence_score : {100}]

DEFAULT_ITERATION_CONFIG ==
    [discovery_challenge_max |-> 3, design_decomposition_max |-> 3,
     decomposition_validation_max |-> Unlimited, min_confidence_score |-> 100]

createPhaseState(maxIterations) ==
    [status |-> "pending", iterations |-> 0, max_iterations |-> maxIterations,
     error |-> NoError, input |-> NoInput, output |-> NoOutput]

createInitialState(cfg) ==
    [discovery |-> createPhaseState(1),
     challenge |-> createPhaseState(cfg.discovery_challenge_max),
     design |-> createPhaseState(1),
     decomposition |-> createPhaseState(cfg.design_decomposition_max),
     validation |-> createPhaseState(
         IF cfg.decomposition_validation_max = Unlimited THEN 999
         ELSE cfg.decomposition_validation_max),
     synthesis |-> createPhaseState(1)]

\* setPhaseStatus: the status of the phase (current_phase is set by the caller
\* of this operator in the same step; timestamps are not modelled)
setPhaseStatus(phs, p, st) == [phs EXCEPT ![p].status = st]

\* emit: listeners are called synchronously and their exceptions are
\* swallowed, so emitting changes nothing but the record of emitted events
emit(cnt, type) == [cnt EXCEPT ![type] = @ + 1]

\* a stack frame of an async function of the run: fn is the function, pc the
\* await it is suspended at, it the local `iterations`, cap the versions of
\* the outputs its const locals captured at entry
Frame(fn, pc, cap) == [fn |-> fn, pc |-> pc, it |-> 0, idx |-> 0, cap |-> cap]

Top == stack[Len(stack)]
Pop == SubSeq(stack, 1, Len(stack) - 1)
SetTop(f) == [stack EXCEPT ![Len(stack)] = f]

\* (faulty variant: the function goes on without waiting at its await)
Running_NotAwaited(fn, pc) == Len(stack) > 0 /\ Top.fn = fn

\* the function fn is the one executing and stands at pc
Running(fn, pc) == Len(stack) > 0 /\ Top.fn = fn /\ Top.pc = pc

\* the outputs currently stored in state.phases, by version
Outputs == [p \in {"discovery", "challenge", "design", "decomposition",
                   "validation"} |-> phases[p].output.ver]

TotalCalls == calls["discovery"] + calls["challenge"] + calls["design"]
              + calls["decomposition"] + calls["validation"] + calls["synthesis"]

InFlight == IF Len(stack) > 0 /\ Top.pc = "await" THEN Top.fn ELSE "none"

\* DEFAULT_RETRY_CONFIG
DEFAULT_RETRY_CONFIG ==
    [maxRetries |-> 3, baseDelayMs |-> 1000, maxDelayMs |-> 10000]

\* no parsed output: null
NoData ==
    [obj |-> FALSE, report |-> TRUE, scoreNum |-> TRUE, score |-> 100,
     qrPasses |-> "true", breakdown |-> "ok", validatedAt |-> TRUE,
     passes |-> "true", loopTargets |-> FALSE]

\* the regexes of INCOMPLETE_PATTERNS that the model tells apart, in the
\* order of the list: the ellipsis (the first entry) and the TODO comment
Patterns == <<"ellipsis", "todo">>
PatternNames == {Patterns[i] : i \in 1..Len(Patterns)}

\* a ValidationInput with no stories, decisions or schemas
EmptyInput ==
    [stories |-> <<>>, decisions |-> <<>>, schemas |-> <<>>,
     techStack |-> [present |-> FALSE, verified_at |-> FALSE, techs |-> <<>>],
     dependencyDag |-> [present |-> FALSE, keys |-> <<>>, deps |-> <<>>]]

NoResult == [score |-> -1, errors |-> 0, warnings |-> 0]

\* SpecEngine.initializeSpec: the tasks, the decisions and the quality block
\* of the SpecPack it returns
initializeSpec ==
    [tasks |-> <<>>, decisions |-> <<>>,
     quality |-> [schemaCompliant |-> TRUE, atomicTaskCompliance |-> 100,
                  citationCoverage |-> 0, freshnessScore |-> 100,
                  totalScore |-> 0]]
NoReport ==
    [confidence_score |-> -1, passes |-> FALSE,
     breakdown |-> [c \in {"completeness", "citations", "atomic", "schemas",
                           "dag"} |-> NoResult]]

\* a BaseAgent on which execute() has not been called
IdleAgent ==
    [pc |-> "idle", attempt |-> 0, retries |-> 0, lastError |-> NoError,
     log |-> <<>>, waits |-> <<>>, outcome |-> "none", error |-> NoError,
     data |-> NoData, overdue |-> FALSE]

\* emit() is not executing
NoEmit == [event |-> 0, i |-> 0, active |-> FALSE]

\* getState() has not been called.  A snapshot holds copies of the top-level
\* fields of this.state; its phases field is a reference
NoSnapshot ==
    [taken |-> FALSE, status |-> "none", current_phase |-> "none",
     total_iterations |-> 0, phases |-> "none", written |-> FALSE]

\* new PipelineOrchestrator(input, config), before start()
Init ==
    /\ config \in IterationConfigs
    /\ retryConfig = DEFAULT_RETRY_CONFIG
    /\ agent = IdleAgent
    /\ artifact = EmptyInput
    /\ report = NoReport
    /\ lastIndex = [p \in PatternNames |-> 0]
    /\ status = "running"
    /\ current_phase = "discovery"
    /\ phases = createInitialState(config)
    /\ total_iterations = 0
    /\ cancelled = FALSE
    /\ stack = <<>>
    /\ exc = NoError
    /\ result = [state |-> "idle", error |-> NoError]
    /\ evCount = [t \in EventTypes |-> 0]
    /\ lastEvent = [type |-> "none", phase |-> "none"]
    /\ calls = [p \in Phases |-> 0]
    /\ sigs = [p \in {"challenge", "decomposition", "validation"} |->
                 [all |-> TRUE, any |-> FALSE, first |-> "none"]]
    /\ failure = [phase |-> "none", error |-> NoError]
    /\ cancelReq = FALSE
    /\ lateCalls = [afterFailure |-> FALSE, afterCancel |-> FALSE]
    /\ eventHandlers = <<>>
    /\ emitLoop = NoEmit
    /\ emitted = <<>>
    /\ deliveries = <<>>
    /\ snapshot = NoSnapshot
    /\ engine = [spec |-> initializeSpec, op |-> "initializeSpec",
                 task |-> <<>>, given |-> initializeSpec, threw |-> FALSE]
    /\ cacheFile = {}
    /\ verify = [pc |-> "idle", decisions |-> <<>>, i |-> 0, offline |-> FALSE,
                 apiKey |-> FALSE, loaded |-> {}, cache |-> {},
                 fetched |-> <<>>, saved |-> FALSE, outcome |-> "none"]

----------------------------------------------------------------------------
(***************************************************************************)
(* start() and cancel()                                                    *)
(***************************************************************************)

\* the frame of a phase runner at its entry, with the outputs its const
\* locals capture there
RunnerFrame(fn) ==
    Frame(fn, IF fn \in {"challenge", "decomposition", "validation"}
              THEN "loop" ELSE "begin", Outputs)

\* start(), lines 66-73: mark the run as running and call runDiscoveryPhase
Start ==
    /\ UNCHANGED <<invokerVars, validateVars, callerVars, toolVars>>
    /\ result.state = "idle"
    /\ status' = "running"
    /\ phases' = [phases EXCEPT !["discovery"].input =
                     [NoInput EXCEPT !.user = 1]]
    /\ result' = [state |-> "pending", error |-> NoError]
    /\ stack' = <<[Frame("start", "called", Outputs) EXCEPT !.idx = 1],
                  RunnerFrame("discovery")>>
    /\ UNCHANGED <<config, current_phase, total_iterations, cancelled, exc,
                   evCount, lastEvent, calls, sigs, failure, cancelReq, lateCalls>>

\* cancel(): sets the cooperative flag.  The caller's code runs only while
\* the run is suspended in an agent call, or before or after the run: the
\* code of the run between two awaits is synchronous.
Cancel ==
    /\ UNCHANGED <<invokerVars, validateVars, callerVars, toolVars>>
    /\ ~cancelled
    /\ IF stack = <<>> THEN TRUE ELSE Top.pc = "await"
    /\ cancelled' = TRUE
    /\ cancelReq' = (result.state = "pending")
    /\ UNCHANGED <<config, status, current_phase, phases, total_iterations,
                   stack, exc, result, evCount, lastEvent, calls, sigs, failure, lateCalls>>

\* the check `if (this.cancelled) throw` that follows each phase runner
CancelObserved(flag) == flag

\* start(), lines 74-94: a phase runner has returned; observe the cancel
\* flag, then call the next runner or finish
StartNext ==
    /\ UNCHANGED <<invokerVars, validateVars, callerVars, toolVars>>
    /\ Running("start", "called")
    /\ exc = NoError
    /\ IF CancelObserved(cancelled)
       THEN /\ exc' = CancelledError
            /\ UNCHANGED <<stack, status, evCount, lastEvent, result>>
       ELSE IF Top.idx < Len(PhaseOrder)
       THEN /\ stack' = SetTop([Top EXCEPT !.idx = @ + 1]) \o
                        <<RunnerFrame(PhaseOrder[Top.idx + 1])>>
            /\ UNCHANGED <<exc, status, evCount, lastEvent, result>>
       ELSE /\ status' = "completed"
            /\ evCount' = emit(evCount, "pipeline_completed")
            /\ lastEvent' = [type |-> "pipeline_completed", phase |-> "none"]
            /\ result' = [state |-> "resolved", error |-> NoError]
            /\ stack' = <<>>
            /\ UNCHANGED exc
    /\ UNCHANGED <<config, current_phase, phases, total_iterations, cancelled,
                   calls, sigs, failure, cancelReq, lateCalls>>

\* (faulty variant: the catch block rethrows without emitting)
StartCatch_Silent ==
    /\ UNCHANGED <<invokerVars, validateVars, callerVars, toolVars>>
    /\ Running("start", "called")
    /\ exc # NoError
    /\ status' = "failed"
    /\ result' = [state |-> "rejected", error |-> exc]
    /\ exc' = NoError
    /\ stack' = <<>>
    /\ UNCHANGED <<config, current_phase, phases, total_iterations, cancelled,
                   calls, sigs, failure, cancelReq, lateCalls, evCount,
                   lastEvent>>

\* start(), lines 101-109: the catch block
StartCatch ==
    /\ UNCHANGED <<invokerVars, validateVars, callerVars, toolVars>>
    /\ Running("start", "called")
    /\ exc # NoError
    /\ status' = "failed"
    /\ evCount' = emit(evCount, "pipeline_failed")
    /\ lastEvent' = [type |-> "pipeline_failed", phase |-> "none"]
    /\ result' = [state |-> "rejected", error |-> exc]
    /\ exc' = NoError
    /\ stack' = <<>>
    /\ UNCHANGED <<config, current_phase, phases, total_iterations, cancelled,
                   calls, sigs, failure, cancelReq, lateCalls>>

----------------------------------------------------------------------------
(***************************************************************************)
(* Phase runners.  Each runner is split at its awaits: <Phase>Begin or     *)
(* <Phase>Loop runs up to agents.<phase>.execute(), <Phase>Resolve and     *)
(* <Phase>Reject are the continuations of a fulfilled / rejected call,     *)
(* <Phase>Catch is the catch block reached by a nested runner's exception. *)
(***************************************************************************)

Emit(type, phase) ==
    /\ evCount' = emit(evCount, type)
    /\ lastEvent' = [type |-> type, phase |-> phase]

\* the agents' side of a call: count the invocation
Invoke(p) ==
    /\ calls' = [calls EXCEPT ![p] = @ + 1]
    /\ lateCalls' = [afterFailure |-> lateCalls.afterFailure
                                          \/ failure.phase # "none",
                     afterCancel |-> lateCalls.afterCancel \/ cancelReq]

\* the agents' side of a fulfilled call of a signalling phase
Signal(p, sig) ==
    sigs' = [sigs EXCEPT ![p] =
                [all |-> @.all /\ sig, any |-> @.any \/ sig,
                 first |-> IF @.first = "none"
                           THEN (IF sig THEN "true" ELSE "false") ELSE @.first]]

\* the agents' side of a rejected call
Rejected(p, e) ==
    failure' = IF failure.phase = "none" THEN [phase |-> p, error |-> e]
               ELSE failure

\* (faulty variant: the error is recorded but not rethrown)
CatchAndRethrow_Swallow(p, e) ==
    /\ phases' = setPhaseStatus([phases EXCEPT ![p].error = e], p, "failed")
    /\ current_phase' = p
    /\ Emit("phase_failed", p)
    /\ exc' = NoError
    /\ stack' = Pop

\* the catch block shared by all runners: record the error, fail the phase,
\* emit phase_failed and rethrow to the caller
CatchAndRethrow(p, e) ==
    /\ phases' = setPhaseStatus([phases EXCEPT ![p].error = e], p, "failed")
    /\ current_phase' = p
    /\ Emit("phase_failed", p)
    /\ exc' = e
    /\ stack' = Pop

\* runDiscoveryPhase, lines 141-147
DiscoveryBegin ==
    /\ UNCHANGED <<invokerVars, validateVars, callerVars, toolVars>>
    /\ Running("discovery", "begin")
    /\ phases' = setPhaseStatus(phases, "discovery", "running")
    /\ current_phase' = "discovery"
    /\ Emit("phase_started", "discovery")
    /\ Invoke("discovery")
    /\ stack' = SetTop([Top EXCEPT !.pc = "await"])
    /\ UNCHANGED <<config, status, total_iterations, cancelled, exc, result,
                   sigs, failure, cancelReq>>

\* runDiscoveryPhase, lines 148-151
DiscoveryResolve ==
    /\ UNCHANGED <<invokerVars, validateVars, callerVars, toolVars>>
    /\ Running("discovery", "await")
    /\ phases' = setPhaseStatus(
           [phases EXCEPT !["discovery"].output =
                              [NoOutput EXCEPT !.ver = calls["discovery"]],
                          !["discovery"].iterations = @ + 1],
           "discovery", "completed")
    /\ current_phase' = "discovery"
    /\ Emit("phase_completed", "discovery")
    /\ stack' = Pop
    /\ UNCHANGED <<config, status, total_iterations, cancelled, exc, result,
                   calls, sigs, failure, cancelReq, lateCalls>>

\* runDiscoveryPhase, lines 152-157
DiscoveryReject ==
    /\ UNCHANGED <<invokerVars, validateVars, callerVars, toolVars>>
    /\ Running("discovery", "await")
    /\ \E e \in AgentErrors :
          /\ CatchAndRethrow("discovery", e)
          /\ Rejected("discovery", e)
    /\ UNCHANGED <<config, status, total_iterations, cancelled, result,
                   calls, sigs, cancelReq, lateCalls>>

\* (faulty variant: the comparison of the budget test is reversed)
LoopBack_Reversed(signal, iterations, maxIterations) ==
    signal /\ iterations > maxIterations

\* (faulty variant: the budget test is off by one)
LoopBack_OffByOne(signal, iterations, maxIterations) ==
    signal /\ iterations <= maxIterations

\* the loop-back test of runChallengePhase (line 193) and of
\* runDecompositionPhase (line 289)
LoopBack(signal, iterations, maxIterations) ==
    signal /\ iterations < maxIterations

\* the loop condition `while (iterations < maxIterations)` of lines 171, 267
LoopContinues(iterations, maxIterations) == iterations < maxIterations

\* runChallengePhase, lines 171-187 and 216-218: the head of the while loop
ChallengeLoop ==
    /\ UNCHANGED <<invokerVars, validateVars, callerVars, toolVars>>
    /\ \/ Running("challenge", "loop")
       \/ Running("challenge", "called")
    /\ exc = NoError
    /\ current_phase' = "challenge"
    /\ IF LoopContinues(Top.it, config.discovery_challenge_max)
       THEN /\ phases' = setPhaseStatus(
                   [phases EXCEPT !["challenge"].input =
                       [NoInput EXCEPT !.discovery = Top.cap.discovery]],
                   "challenge", IF Top.it > 0 THEN "iterating" ELSE "running")
            /\ Emit(IF Top.it > 0 THEN "iteration_started" ELSE "phase_started",
                    "challenge")
            /\ Invoke("challenge")
            /\ stack' = SetTop([Top EXCEPT !.pc = "await"])
       ELSE /\ phases' = setPhaseStatus(phases, "challenge", "completed")
            /\ Emit("phase_completed", "challenge")
            /\ stack' = Pop
            /\ UNCHANGED <<calls, lateCalls>>
    /\ UNCHANGED <<config, status, total_iterations, cancelled, exc, result,
                   sigs, failure, cancelReq>>

\* runChallengePhase, lines 188-207
ChallengeResolve ==
    /\ UNCHANGED <<invokerVars, validateVars, callerVars, toolVars>>
    /\ Running("challenge", "await")
    /\ \E needs_discovery_loop \in BOOLEAN :
          LET out == [NoOutput EXCEPT !.ver = calls["challenge"],
                                      !.sig = needs_discovery_loop]
              stored == [phases EXCEPT !["challenge"].output = out,
                                       !["challenge"].iterations = @ + 1]
          IN /\ Signal("challenge", needs_discovery_loop)
             /\ total_iterations' = total_iterations + 1
             /\ IF LoopBack(needs_discovery_loop, Top.it + 1,
                            config.discovery_challenge_max)
                THEN /\ Emit("loop_back", "discovery")
                     /\ phases' = stored
                     /\ stack' = SetTop([Top EXCEPT !.pc = "called",
                                                    !.it = @ + 1])
                                 \o <<RunnerFrame("discovery")>>
                     /\ UNCHANGED current_phase
                ELSE /\ phases' = setPhaseStatus(stored, "challenge", "completed")
                     /\ current_phase' = "challenge"
                     /\ Emit("phase_completed", "challenge")
                     /\ stack' = Pop
    /\ UNCHANGED <<config, status, cancelled, exc, result, calls, failure,
                   cancelReq, lateCalls>>

\* runChallengePhase, lines 208-213, reached from agents.challenge.execute
ChallengeReject ==
    /\ UNCHANGED <<invokerVars, validateVars, callerVars, toolVars>>
    /\ Running("challenge", "await")
    /\ \E e \in AgentErrors :
          /\ CatchAndRethrow("challenge", e)
          /\ Rejected("challenge", e)
    /\ UNCHANGED <<config, status, total_iterations, cancelled, result,
                   calls, sigs, cancelReq, lateCalls>>

\* runChallengePhase, lines 208-213, reached from the nested runDiscoveryPhase
ChallengeCatch ==
    /\ UNCHANGED <<invokerVars, validateVars, callerVars, toolVars>>
    /\ Running("challenge", "called")
    /\ exc # NoError
    /\ CatchAndRethrow("challenge", exc)
    /\ UNCHANGED <<config, status, total_iterations, cancelled, result,
                   calls, sigs, failure, cancelReq, lateCalls>>

\* a property read of an output that is still undefined throws a TypeError
\* outside the runner's try block: the runner ends without failing its phase
ThrowTypeError ==
    /\ exc' = TypeErrorMsg
    /\ stack' = Pop

\* runDesignPhase, lines 226-241
DesignBegin ==
    /\ UNCHANGED <<invokerVars, validateVars, callerVars, toolVars>>
    /\ Running("design", "begin")
    /\ current_phase' = "design"
    /\ Emit("phase_started", "design")
    /\ IF Top.cap.challenge = 0 \/ Top.cap.discovery = 0
       THEN /\ phases' = setPhaseStatus(phases, "design", "running")
            /\ ThrowTypeError
            /\ UNCHANGED <<calls, lateCalls>>
       ELSE /\ phases' = setPhaseStatus(
                   [phases EXCEPT !["design"].input =
                       [NoInput EXCEPT !.challenge = Top.cap.challenge,
                                       !.discovery = Top.cap.discovery]],
                   "design", "running")
            /\ Invoke("design")
            /\ stack' = SetTop([Top EXCEPT !.pc = "await"])
            /\ UNCHANGED exc
    /\ UNCHANGED <<config, status, total_iterations, cancelled, result,
                   sigs, failure, cancelReq>>

\* runDesignPhase, lines 242-246
DesignResolve ==
    /\ UNCHANGED <<invokerVars, validateVars, callerVars, toolVars>>
    /\ Running("design", "await")
    /\ phases' = setPhaseStatus(
           [phases EXCEPT !["design"].output =
                              [NoOutput EXCEPT !.ver = calls["design"]],
                          !["design"].iterations = @ + 1],
           "design", "completed")
    /\ current_phase' = "design"
    /\ total_iterations' = total_iterations + 1
    /\ Emit("phase_completed", "design")
    /\ stack' = Pop
    /\ UNCHANGED <<config, status, cancelled, exc, result, calls, sigs,
                   failure, cancelReq, lateCalls>>

\* runDesignPhase, lines 247-252
DesignReject ==
    /\ UNCHANGED <<invokerVars, validateVars, callerVars, toolVars>>
    /\ Running("design", "await")
    /\ \E e \in AgentErrors :
          /\ CatchAndRethrow("design", e)
          /\ Rejected("design", e)
    /\ UNCHANGED <<config, status, total_iterations, cancelled, result,
                   calls, sigs, cancelReq, lateCalls>>

\* runDecompositionPhase, lines 267-283 and 312-314: the head of the loop
DecompositionLoop ==
    /\ UNCHANGED <<invokerVars, validateVars, callerVars, toolVars>>
    /\ \/ Running("decomposition", "loop")
       \/ Running("decomposition", "called")
    /\ exc = NoError
    /\ current_phase' = "decomposition"
    /\ IF LoopContinues(Top.it, config.design_decomposition_max)
       THEN /\ Emit(IF Top.it > 0 THEN "iteration_started" ELSE "phase_started",
                    "decomposition")
            /\ IF Top.cap.challenge = 0
               THEN /\ phases' = setPhaseStatus(phases, "decomposition",
                           IF Top.it > 0 THEN "iterating" ELSE "running")
                    /\ ThrowTypeError
                    /\ UNCHANGED <<calls, lateCalls>>
               ELSE /\ phases' = setPhaseStatus(
                           [phases EXCEPT !["decomposition"].input =
                               [NoInput EXCEPT !.design = Top.cap.design,
                                               !.challenge = Top.cap.challenge]],
                           "decomposition",
                           IF Top.it > 0 THEN "iterating" ELSE "running")
                    /\ Invoke("decomposition")
                    /\ stack' = SetTop([Top EXCEPT !.pc = "await"])
                    /\ UNCHANGED exc
       ELSE /\ phases' = setPhaseStatus(phases, "decomposition", "completed")
            /\ Emit("phase_completed", "decomposition")
            /\ stack' = Pop
            /\ UNCHANGED <<calls, lateCalls, exc>>
    /\ UNCHANGED <<config, status, total_iterations, cancelled, result,
                   sigs, failure, cancelReq>>

\* runDecompositionPhase, lines 284-303
DecompositionResolve ==
    /\ UNCHANGED <<invokerVars, validateVars, callerVars, toolVars>>
    /\ Running("decomposition", "await")
    /\ \E has_non_atomic_tasks \in BOOLEAN :
          LET out == [NoOutput EXCEPT !.ver = calls["decomposition"],
                                      !.sig = has_non_atomic_tasks]
              stored == [phases EXCEPT !["decomposition"].output = out,
                                       !["decomposition"].iterations = @ + 1]
          IN /\ Signal("decomposition", has_non_atomic_tasks)
             /\ total_iterations' = total_iterations + 1
             /\ IF LoopBack(has_non_atomic_tasks, Top.it + 1,
                            config.design_decomposition_max)
                THEN /\ Emit("loop_back", "design")
                     /\ phases' = stored
                     /\ stack' = SetTop([Top EXCEPT !.pc = "called",
                                                    !.it = @ + 1])
                                 \o <<RunnerFrame("design")>>
                     /\ UNCHANGED current_phase
                ELSE /\ phases' = setPhaseStatus(stored, "decomposition",
                                                 "completed")
                     /\ current_phase' = "decomposition"
                     /\ Emit("phase_completed", "decomposition")
                     /\ stack' = Pop
    /\ UNCHANGED <<config, status, cancelled, exc, result, calls, failure,
                   cancelReq, lateCalls>>

\* runDecompositionPhase, lines 304-309, reached from the agent call
DecompositionReject ==
    /\ UNCHANGED <<invokerVars, validateVars, callerVars, toolVars>>
    /\ Running("decomposition", "await")
    /\ \E e \in AgentErrors :
          /\ CatchAndRethrow("decomposition", e)
          /\ Rejected("decomposition", e)
    /\ UNCHANGED <<config, status, total_iterations, cancelled, result,
                   calls, sigs, cancelReq, lateCalls>>

\* runDecompositionPhase, lines 304-309, reached from the nested runDesignPhase
DecompositionCatch ==
    /\ UNCHANGED <<invokerVars, validateVars, callerVars, toolVars>>
    /\ Running("decomposition", "called")
    /\ exc # NoError
    /\ CatchAndRethrow("decomposition", exc)
    /\ UNCHANGED <<config, status, total_iterations, cancelled, result,
                   calls, sigs, failure, cancelReq, lateCalls>>

\* (faulty variant: the cap is tested with > instead of >=)
CapExceeded_Strict(maxIterations, iterations) ==
    maxIterations # Unlimited /\ iterations > maxIterations

\* runValidationPhase, line 362: the hard cap of the validation loop
CapExceeded(maxIterations, iterations) ==
    maxIterations # Unlimited /\ iterations >= maxIterations

\* (faulty variant: a report that blames no phase is taken as passing)
ValidationPassed_NoTargets(out) == out.sig \/ out.tgt = "none"

\* runValidationPhase, line 354: the exit test of the validation loop
ValidationPassed(out) == out.sig

\* runValidationPhase, lines 330-348: the head of the while (true) loop
ValidationLoop ==
    /\ UNCHANGED <<invokerVars, validateVars, callerVars, toolVars>>
    /\ \/ Running("validation", "loop")
       \/ Running("validation", "called_decomposition")
    /\ exc = NoError
    /\ config.decomposition_validation_max = Unlimited
          => calls["validation"] < MaxValidationCalls
    /\ current_phase' = "validation"
    /\ Emit(IF Top.it > 0 THEN "iteration_started" ELSE "phase_started",
            "validation")
    /\ IF Top.cap.decomposition = 0 \/ Top.cap.design = 0
       THEN /\ phases' = setPhaseStatus(phases, "validation",
                   IF Top.it > 0 THEN "iterating" ELSE "running")
            /\ ThrowTypeError
            /\ UNCHANGED <<calls, lateCalls>>
       ELSE /\ phases' = setPhaseStatus(
                   [phases EXCEPT !["validation"].input =
                       [NoInput EXCEPT !.decomposition = Top.cap.decomposition,
                                       !.design = Top.cap.design]],
                   "validation", IF Top.it > 0 THEN "iterating" ELSE "running")
            /\ Invoke("validation")
            /\ stack' = SetTop([Top EXCEPT !.pc = "await"])
            /\ UNCHANGED exc
    /\ UNCHANGED <<config, status, total_iterations, cancelled, result,
                   sigs, failure, cancelReq>>

\* the outputs the validation agent may return: a passing one, with any
\* confidence score, or a failing one whose loop_targets name design issues,
\* decomposition issues, both or neither, whatever category its quality
\* report marks as failing
ValidationOutputs ==
    {[ver |-> calls["validation"], sig |-> TRUE, tgt |-> "none", score |-> c,
      failing |-> "none"] : c \in ConfidenceScores} \cup
    {[ver |-> calls["validation"], sig |-> FALSE, tgt |-> t, score |-> 50,
      failing |-> f] : t \in LoopTargets, f \in {"completeness", "citations"}}

\* runValidationPhase, lines 349-384
ValidationResolve ==
    /\ UNCHANGED <<invokerVars, validateVars, callerVars, toolVars>>
    /\ Running("validation", "await")
    /\ \E out \in ValidationOutputs :
          LET stored == [phases EXCEPT !["validation"].output = out,
                                       !["validation"].iterations = @ + 1]
          IN /\ Signal("validation", out.sig)
             /\ total_iterations' = total_iterations + 1
             /\ IF ValidationPassed(out)
                THEN /\ phases' = setPhaseStatus(stored, "validation", "completed")
                     /\ current_phase' = "validation"
                     /\ Emit("phase_completed", "validation")
                     /\ stack' = Pop
                     /\ UNCHANGED exc
                ELSE IF CapExceeded(config.decomposition_validation_max,
                                    Top.it + 1)
                THEN /\ phases' = setPhaseStatus(
                            [stored EXCEPT !["validation"].error = CapError],
                            "validation", "failed")
                     /\ current_phase' = "validation"
                     /\ Emit("phase_failed", "validation")
                     /\ exc' = CapError
                     /\ stack' = Pop
                ELSE IF out.tgt \in {"design", "both"}
                THEN /\ Emit("loop_back", "design")
                     /\ phases' = stored
                     /\ stack' = SetTop([Top EXCEPT !.pc = "called_design",
                                                    !.it = @ + 1])
                                 \o <<RunnerFrame("design")>>
                     /\ UNCHANGED <<current_phase, exc>>
                ELSE IF out.tgt = "decomposition"
                THEN /\ Emit("loop_back", "decomposition")
                     /\ phases' = stored
                     /\ stack' = SetTop([Top EXCEPT !.pc = "called_decomposition",
                                                    !.it = @ + 1])
                                 \o <<RunnerFrame("decomposition")>>
                     /\ UNCHANGED <<current_phase, exc>>
                ELSE /\ phases' = stored
                     /\ stack' = SetTop([Top EXCEPT !.pc = "loop", !.it = @ + 1])
                     /\ UNCHANGED <<current_phase, exc, evCount, lastEvent>>
    /\ UNCHANGED <<config, status, cancelled, result, calls, failure, cancelReq, lateCalls>>

\* runValidationPhase, lines 374-375: runDesignPhase has returned, call
\* runDecompositionPhase
ValidationAfterDesign ==
    /\ UNCHANGED <<invokerVars, validateVars, callerVars, toolVars>>
    /\ Running("validation", "called_design")
    /\ exc = NoError
    /\ stack' = SetTop([Top EXCEPT !.pc = "called_decomposition"])
                \o <<RunnerFrame("decomposition")>>
    /\ UNCHANGED <<config, status, current_phase, phases, total_iterations,
                   cancelled, exc, result, evCount, lastEvent, calls, sigs,
                   failure, cancelReq, lateCalls>>

\* runValidationPhase, lines 385-390, reached from the agent call
ValidationReject ==
    /\ UNCHANGED <<invokerVars, validateVars, callerVars, toolVars>>
    /\ Running("validation", "await")
    /\ \E e \in AgentErrors :
          /\ CatchAndRethrow("validation", e)
          /\ Rejected("validation", e)
    /\ UNCHANGED <<config, status, total_iterations, cancelled, result,
                   calls, sigs, cancelReq, lateCalls>>

\* runValidationPhase, lines 385-390, reached from a nested runner
ValidationCatch ==
    /\ UNCHANGED <<invokerVars, validateVars, callerVars, toolVars>>
    /\ \/ Running("validation", "called_design")
       \/ Running("validation", "called_decomposition")
    /\ exc # NoError
    /\ CatchAndRethrow("validation", exc)
    /\ UNCHANGED <<config, status, total_iterations, cancelled, result,
                   calls, sigs, failure, cancelReq, lateCalls>>

\* runSynthesisPhase, lines 399-414
SynthesisBegin ==
    /\ UNCHANGED <<invokerVars, validateVars, callerVars, toolVars>>
    /\ Running("synthesis", "begin")
    /\ phases' = setPhaseStatus(
           [phases EXCEPT !["synthesis"].input =
               [NoInput EXCEPT !.discovery = Outputs["discovery"],
                               !.challenge = Outputs["challenge"],
                               !.design = Outputs["design"],
                               !.decomposition = Outputs["decomposition"],
                               !.validation = Outputs["validation"]]],
           "synthesis", "running")
    /\ current_phase' = "synthesis"
    /\ Emit("phase_started", "synthesis")
    /\ Invoke("synthesis")
    /\ stack' = SetTop([Top EXCEPT !.pc = "await"])
    /\ UNCHANGED <<config, status, total_iterations, cancelled, exc, result,
                   sigs, failure, cancelReq>>

\* runSynthesisPhase, lines 415-420
SynthesisResolve ==
    /\ UNCHANGED <<invokerVars, validateVars, callerVars, toolVars>>
    /\ Running("synthesis", "await")
    /\ phases' = setPhaseStatus(
           [phases EXCEPT !["synthesis"].output =
                              [NoOutput EXCEPT !.ver = calls["synthesis"]],
                          !["synthesis"].iterations = @ + 1],
           "synthesis", "completed")
    /\ current_phase' = "synthesis"
    /\ total_iterations' = total_iterations + 1
    /\ Emit("phase_completed", "synthesis")
    /\ stack' = Pop
    /\ UNCHANGED <<config, status, cancelled, exc, result, calls, sigs,
                   failure, cancelReq, lateCalls>>

\* runSynthesisPhase, lines 421-426
SynthesisReject ==
    /\ UNCHANGED <<invokerVars, validateVars, callerVars, toolVars>>
    /\ Running("synthesis", "await")
    /\ \E e \in AgentErrors :
          /\ CatchAndRethrow("synthesis", e)
          /\ Rejected("synthesis", e)
    /\ UNCHANGED <<config, status, total_iterations, cancelled, result,
                   calls, sigs, cancelReq, lateCalls>>

Next ==
    \/ Start
    \/ Cancel
    \/ StartNext
    \/ StartCatch
    \/ DiscoveryBegin
    \/ DiscoveryResolve
    \/ DiscoveryReject
    \/ ChallengeLoop
    \/ ChallengeResolve
    \/ ChallengeReject
    \/ ChallengeCatch
    \/ DesignBegin
    \/ DesignResolve
    \/ DesignReject
    \/ DecompositionLoop
    \/ DecompositionResolve
    \/ DecompositionReject
    \/ DecompositionCatch
    \/ ValidationLoop
    \/ ValidationResolve
    \/ ValidationAfterDesign
    \/ ValidationReject
    \/ ValidationCatch
    \/ SynthesisBegin
    \/ SynthesisResolve
    \/ SynthesisReject


----------------------------------------------------------------------------
(***************************************************************************)
(* BaseAgent: execute() / executeWithRetry(), here for the ValidatorAgent  *)
(***************************************************************************)

RetryConfigs ==
    [maxRetries : 0..MaxRetriesBound,
     baseDelayMs : 0..MaxBaseDelay,
     maxDelayMs : 1..MaxDelayCap]

RECURSIVE Pow2(_)
Pow2(n) == IF n = 0 THEN 1 ELSE 2 * Pow2(n - 1)

\* (faulty variant: the delay is not capped)
getBackoffDelay_Uncapped(attempt, cfg) == cfg.baseDelayMs * Pow2(attempt)

\* getBackoffDelay
getBackoffDelay(attempt, cfg) ==
    LET delay == cfg.baseDelayMs * Pow2(attempt)
    IN Min(delay, cfg.maxDelayMs)

\* a parsed ValidationOutput, as far as isValidValidationOutput reads it
ValidOutput ==
    [obj |-> TRUE, report |-> TRUE, scoreNum |-> TRUE, score |-> 100,
     qrPasses |-> "true", breakdown |-> "ok", validatedAt |-> TRUE,
     passes |-> "true", loopTargets |-> FALSE]

FailingOutput ==
    [ValidOutput EXCEPT !.score = 0, !.qrPasses = "false", !.passes = "false",
                        !.loopTargets = TRUE]

\* the parsed outputs the collaborator is given to answer with: well-formed
\* ones, and ones that break one rule of the shape validator each
SampleOutputs ==
    {ValidOutput, FailingOutput,
     [ValidOutput EXCEPT !.score = 50],
     [ValidOutput EXCEPT !.breakdown = "empty"],
     NoData,
     [ValidOutput EXCEPT !.report = FALSE],
     [ValidOutput EXCEPT !.scoreNum = FALSE],
     [ValidOutput EXCEPT !.score = -1],
     [ValidOutput EXCEPT !.score = 101],
     [ValidOutput EXCEPT !.qrPasses = "none"],
     [ValidOutput EXCEPT !.breakdown = "missing"],
     [ValidOutput EXCEPT !.breakdown = "score not a number"],
     [ValidOutput EXCEPT !.breakdown = "issues not an array"],
     [ValidOutput EXCEPT !.breakdown = "unknown severity"],
     [ValidOutput EXCEPT !.validatedAt = FALSE],
     [ValidOutput EXCEPT !.passes = "none"],
     [ValidOutput EXCEPT !.passes = "false", !.loopTargets = TRUE],
     [FailingOutput EXCEPT !.loopTargets = FALSE]}

\* isValidValidationOutput
isValidValidationOutput(output) ==
    /\ output.obj
    /\ output.report
    /\ output.scoreNum /\ output.score >= 0 /\ output.score <= 100
    /\ output.qrPasses \in {"true", "false"}
    /\ output.breakdown \in {"ok", "empty"}
    /\ output.validatedAt
    /\ output.passes \in {"true", "false"}
    /\ output.passes = output.qrPasses
    /\ ~(output.passes = "false" /\ ~output.loopTargets)

\* (faulty variant: every parsed output is accepted)
validateOutput_AcceptAll(output) == TRUE

\* ValidatorAgent.validateOutput
validateOutput(output) == isValidValidationOutput(output)

\* what one call of invokeLLM may end with: a rejection (transport error,
\* timeout), or a response whose text is JSON for a sample output, possibly
\* inside a markdown fence, or no JSON at all
TransportErrors == {"Connection error.", "Request timed out."}
ParseError == "SyntaxError: Unexpected token"
ShapeError == "Output validation failed"
ExhaustedError == "Agent execution failed"

LLMResults ==
    [kind : {"rejected"}, error : TransportErrors, fence : {"none"},
     json : {FALSE}, value : {NoData}]
    \cup [kind : {"response"}, error : {NoError}, fence : {"none"},
          json : {FALSE}, value : {NoData}]
    \cup [kind : {"response"}, error : {NoError}, fence : {"none", "json"},
          json : {TRUE}, value : SampleOutputs]

\* parseJSONResponse: strips a markdown fence and parses the rest; the
\* result is [ok, value], ok = FALSE standing for the SyntaxError it throws
parseJSONResponse(response) ==
    IF response.json THEN [ok |-> TRUE, value |-> response.value]
    ELSE [ok |-> FALSE, value |-> NoData]

\* the error an attempt ends with (NoError: the attempt returns its output)
AttemptError(r) ==
    IF r.kind = "rejected" THEN r.error
    ELSE IF ~parseJSONResponse(r).ok THEN ParseError
    ELSE IF ~validateOutput(parseJSONResponse(r).value) THEN ShapeError
    ELSE NoError

\* (faulty variant: one attempt too few)
MoreAttempts_OneLess(attempt, cfg) == attempt < cfg.maxRetries

\* the loop condition of executeWithRetry, line 178
MoreAttempts(attempt, cfg) == attempt <= cfg.maxRetries

\* the test before the backoff wait, line 203
WaitsBeforeRetry(attempt, cfg) == attempt < cfg.maxRetries

\* a new agent with some RetryConfig, before execute()
InitInvoker ==
    /\ retryConfig \in RetryConfigs
    /\ agent = IdleAgent
    /\ artifact = EmptyInput
    /\ report = NoReport
    /\ lastIndex = [p \in PatternNames |-> 0]
    /\ config = DEFAULT_ITERATION_CONFIG
    /\ status = "running"
    /\ current_phase = "discovery"
    /\ phases = createInitialState(config)
    /\ total_iterations = 0
    /\ cancelled = FALSE
    /\ stack = <<>>
    /\ exc = NoError
    /\ result = [state |-> "idle", error |-> NoError]
    /\ evCount = [t \in EventTypes |-> 0]
    /\ lastEvent = [type |-> "none", phase |-> "none"]
    /\ calls = [p \in Phases |-> 0]
    /\ sigs = [p \in {"challenge", "decomposition", "validation"} |->
                 [all |-> TRUE, any |-> FALSE, first |-> "none"]]
    /\ failure = [phase |-> "none", error |-> NoError]
    /\ cancelReq = FALSE
    /\ lateCalls = [afterFailure |-> FALSE, afterCancel |-> FALSE]
    /\ eventHandlers = <<>>
    /\ emitLoop = NoEmit
    /\ emitted = <<>>
    /\ deliveries = <<>>
    /\ snapshot = NoSnapshot
    /\ engine = [spec |-> initializeSpec, op |-> "initializeSpec",
                 task |-> <<>>, given |-> initializeSpec, threw |-> FALSE]
    /\ cacheFile = {}
    /\ verify = [pc |-> "idle", decisions |-> <<>>, i |-> 0, offline |-> FALSE,
                 apiKey |-> FALSE, loaded |-> {}, cache |-> {},
                 fetched |-> <<>>, saved |-> FALSE, outcome |-> "none"]

\* execute(), line 164, and executeWithRetry(), lines 175-178
Execute ==
    /\ UNCHANGED <<orchVars, validateVars, callerVars, toolVars>>
    /\ agent.pc = "idle"
    /\ agent' = [agent EXCEPT !.pc = "loop"]
    /\ UNCHANGED retryConfig

\* executeWithRetry(), lines 178-185: the loop head, up to invokeLLM; and
\* lines 210-214 with execute(), lines 165-167, when the attempts are used up
Attempt ==
    /\ UNCHANGED <<orchVars, validateVars, callerVars, toolVars>>
    /\ agent.pc = "loop"
    /\ IF MoreAttempts(agent.attempt, retryConfig)
       THEN agent' = [agent EXCEPT !.pc = "await", !.overdue = FALSE]
       ELSE agent' = [agent EXCEPT
                        !.pc = "done", !.outcome = "raised",
                        !.error = IF agent.lastError = NoError
                                  THEN ExhaustedError ELSE agent.lastError]
    /\ UNCHANGED retryConfig

\* executeWithRetry(), lines 185-207: invokeLLM has settled
Settle ==
    /\ UNCHANGED <<orchVars, validateVars, callerVars, toolVars>>
    /\ agent.pc = "await"
    /\ \E r \in LLMResults :
          LET e == AttemptError(r)
          IN IF e = NoError
             THEN agent' = [agent EXCEPT
                              !.pc = "done", !.outcome = "returned",
                              !.data = parseJSONResponse(r).value,
                              !.log = Append(@, e)]
             ELSE IF WaitsBeforeRetry(agent.attempt, retryConfig)
             THEN agent' = [agent EXCEPT
                              !.pc = "sleep", !.lastError = e,
                              !.overdue = FALSE,
                              !.retries = @ + 1, !.log = Append(@, e),
                              !.waits = Append(@, getBackoffDelay(agent.attempt,
                                                                  retryConfig))]
             ELSE agent' = [agent EXCEPT
                              !.pc = "loop", !.lastError = e,
                              !.overdue = FALSE,
                              !.retries = @ + 1, !.log = Append(@, e),
                              !.attempt = @ + 1]
    /\ UNCHANGED retryConfig

\* invokeAnthropic, lines 259-265: the configured timeout (config.timeout,
\* received as _timeout) elapses while client.messages.create is pending.
\* The parameter is never used and no timer is armed: the call stays
\* pending and agent.overdue only records that the time has passed
TimeoutElapses ==
    /\ UNCHANGED <<orchVars, validateVars, callerVars, toolVars>>
    /\ agent.pc = "await"
    /\ ~agent.overdue
    /\ agent' = [agent EXCEPT !.overdue = TRUE]
    /\ UNCHANGED retryConfig

\* executeWithRetry(), line 205 and the loop increment: the wait is over
Wake ==
    /\ UNCHANGED <<orchVars, validateVars, callerVars, toolVars>>
    /\ agent.pc = "sleep"
    /\ agent' = [agent EXCEPT !.pc = "loop", !.attempt = @ + 1]
    /\ UNCHANGED retryConfig

NextInvoker ==
    \/ Execute
    \/ Attempt
    \/ Settle
    \/ TimeoutElapses
    \/ Wake

----------------------------------------------------------------------------
(***************************************************************************)
(* The validators and validateAll()                                        *)
(*                                                                         *)
(* A piece of code is known by what the validators read of it: where the   *)
(* incomplete-code regexes match (start and end offsets), how many empty   *)
(* function bodies it has and whether it declares a type or an interface,  *)
(* its counts of braces and parentheses, and its exports.                  *)
(***************************************************************************)

CompleteCode ==
    [marks |-> [p \in PatternNames |-> {}], emptyBodies |-> 0,
     typeContext |-> TRUE,
     openBraces |-> 1, closeBraces |-> 1, openParens |-> 0, closeParens |-> 0,
     emptyExport |-> FALSE, exportsType |-> TRUE]

\* pieces of code with one defect each; ManyTodos has a TODO comment on each
\* of 21 lines
SampleCodes ==
    [EllipsisEarly |-> [CompleteCode EXCEPT !.marks["ellipsis"] = {<<0, 3>>}],
     EllipsisLate |-> [CompleteCode EXCEPT !.marks["ellipsis"] = {<<4, 7>>}],
     TodoCode |-> [CompleteCode EXCEPT !.marks["todo"] = {<<2, 9>>}],
     ThreeMarks |->
        [CompleteCode EXCEPT !.marks["ellipsis"] = {<<0, 3>>, <<5, 8>>},
                             !.marks["todo"] = {<<10, 17>>}],
     ManyTodos |->
        [CompleteCode EXCEPT
            !.marks["todo"] = {<<8 * k, 8 * k + 7>> : k \in 0..20}],
     EmptyBody |-> [CompleteCode EXCEPT !.emptyBodies = 1, !.typeContext = FALSE],
     EmptyBodyInType |-> [CompleteCode EXCEPT !.emptyBodies = 1],
     UnbalancedBraces |-> [CompleteCode EXCEPT !.openBraces = 2],
     UnbalancedParens |-> [CompleteCode EXCEPT !.closeParens = 1],
     EmptyExport |->
        [CompleteCode EXCEPT !.emptyExport = TRUE, !.exportsType = FALSE]]

StepCodes ==
    {CompleteCode, SampleCodes.EllipsisEarly, SampleCodes.ThreeMarks,
     SampleCodes.EmptyBody, SampleCodes.EmptyBodyInType, SampleCodes.ManyTodos}
SchemaCodes ==
    {CompleteCode, SampleCodes.EllipsisEarly, SampleCodes.EllipsisLate,
     SampleCodes.TodoCode, SampleCodes.UnbalancedBraces,
     SampleCodes.UnbalancedParens, SampleCodes.EmptyExport}

\* stories: the paths of files_affected and the steps (file_path and code)
StoryShapes ==
    [files_affected : {<<"a.ts", "b.ts">>, <<"a.ts", "b.ts", "c.ts">>},
     steps : {<<>>, <<[file_path |-> "a.ts", code |-> CompleteCode]>>}
             \cup {<<[file_path |-> "d.ts", code |-> c]>> : c \in StepCodes}]

\* design decisions: the URL, the date (given, well formed, time elapsed since
\* in days, rounded up) and the number of alternatives
Urls == {"", "not a url", "ftp://example.com/a", "https://example.com/a"}
Dates ==
    [NoDate |-> [given |-> FALSE, wellFormed |-> FALSE, ageDays |-> 0],
     BadDate |-> [given |-> TRUE, wellFormed |-> FALSE, ageDays |-> 0],
     OldDate |-> [given |-> TRUE, wellFormed |-> TRUE, ageDays |-> 91],
     RecentDate |-> [given |-> TRUE, wellFormed |-> TRUE, ageDays |-> 1]]
DecisionShapes ==
    [verification_source : Urls \ {"ftp://example.com/a"},
     verified_at : {Dates.NoDate, Dates.BadDate, Dates.OldDate, Dates.RecentDate},
     alternatives_considered : {2}]
    \cup [verification_source : {"https://example.com/a"},
          verified_at : {Dates.OldDate, Dates.RecentDate},
          alternatives_considered : {0, 1}]

\* tech-stack entries: where the entry sits in the VerifiedTechStack
\* (spec-pack.ts, lines 88-123), its version and its URL
TechShapes ==
    {[path |-> "frontend/framework", version |-> "1.2.3",
      verification_source |-> "https://example.com/a"],
     [path |-> "frontend/framework", version |-> "latest",
      verification_source |-> "https://example.com/a"],
     [path |-> "frontend/framework", version |-> "",
      verification_source |-> ""],
     [path |-> "frontend/framework", version |-> "1.2.3",
      verification_source |-> "ftp://example.com/a"],
     [path |-> "backend/api", version |-> "latest",
      verification_source |-> "https://example.com/a"]}
TechStacks ==
    [present : {TRUE}, verified_at : BOOLEAN,
     techs : {<<>>} \cup {<<t>> : t \in TechShapes}]

\* story ids, and the blocked_by lists over them (no id listed twice)
Nodes == {"S1-001", "S1-002", "S1-003"}
DepLists ==
    {<<>>} \cup {<<a>> : a \in Nodes}
    \cup {d \in {<<a, b>> : a \in Nodes, b \in Nodes} : d[1] # d[2]}

RECURSIVE Sum(_)
Sum(seq) == IF seq = <<>> THEN 0 ELSE Head(seq) + Sum(Tail(seq))

Range(seq) == {seq[i] : i \in 1..Len(seq)}

\* validateCodeBlock: the number of issues, one per match
validateCodeBlock(code) ==
    Sum([i \in 1..Len(Patterns) |-> Cardinality(code.marks[Patterns[i]])])
    + (IF code.emptyBodies > 0 /\ ~code.typeContext THEN code.emptyBodies ELSE 0)

\* validateStory
validateStory(story) ==
    Sum([i \in 1..Len(story.steps) |-> validateCodeBlock(story.steps[i].code)])

\* (faulty variant: no floor at 0)
validateCompleteness_NoFloor(stories, li) ==
    LET n == Sum([i \in 1..Len(stories) |-> validateStory(stories[i])])
        matched == \E i \in 1..Len(stories) : Len(stories[i].steps) > 0
    IN [result |-> [score |-> 100 - n * 5, errors |-> n, warnings |-> 0],
        lastIndex |-> IF matched THEN [p \in PatternNames |-> 0] ELSE li]

\* validateCompleteness; String.match with a global regex leaves the regex
\* with lastIndex 0, so a validated step resets every pattern
validateCompleteness(stories, li) ==
    LET n == Sum([i \in 1..Len(stories) |-> validateStory(stories[i])])
        matched == \E i \in 1..Len(stories) : Len(stories[i].steps) > 0
    IN [result |-> [score |-> Max(0, 100 - n * 5), errors |-> n, warnings |-> 0],
        lastIndex |-> IF matched THEN [p \in PatternNames |-> 0] ELSE li]

\* MAX_FILES_PER_TASK
MAX_FILES_PER_TASK == 3

\* (faulty variant: a path is counted every time it is listed)
countFilesAffected_Repeated(story) ==
    Len(story.files_affected) + Len(story.steps)

\* countFilesAffected
countFilesAffected(story) ==
    Cardinality(Range(story.files_affected)
                \cup {story.steps[i].file_path : i \in 1..Len(story.steps)})

\* validateStoryAtomic: the number of issues
validateStoryAtomic(story) ==
    IF countFilesAffected(story) > MAX_FILES_PER_TASK THEN 1 ELSE 0

\* validateAtomic
validateAtomic(stories) ==
    LET violatingStories ==
            {i \in 1..Len(stories) : validateStoryAtomic(stories[i]) > 0}
    IN [score |-> IF violatingStories = {} THEN 100 ELSE 0,
        errors |-> Cardinality(violatingStories), warnings |-> 0]

\* isValidUrl
isValidUrl(url) == url \in {"https://example.com/a", "http://example.com/a"}

\* isValidDate
isValidDate(date) == date.wellFormed

\* isRecentDate
isRecentDate(date) == date.ageDays <= 90

\* validateDecision
validateDecision(decision) ==
    LET source == IF decision.verification_source = "" THEN 1
                  ELSE IF ~isValidUrl(decision.verification_source) THEN 1
                  ELSE 0
        date == IF ~decision.verified_at.given THEN <<1, 0>>
                ELSE IF ~isValidDate(decision.verified_at) THEN <<1, 0>>
                ELSE IF ~isRecentDate(decision.verified_at) THEN <<0, 1>>
                ELSE <<0, 0>>
        alternatives == IF decision.alternatives_considered = 0 THEN 1 ELSE 0
    IN [errors |-> source + date[1], warnings |-> date[2] + alternatives]

\* validateTech: the number of issues, all errors
validateTech(tech) ==
    (IF tech.version = "" \/ tech.version = "latest" THEN 1 ELSE 0)
    + (IF tech.verification_source = "" THEN 1
       ELSE IF ~isValidUrl(tech.verification_source) THEN 1
       ELSE 0)

\* validateTechStack: the number of issues, all errors; validateTech is
\* called for the seven entries named here and for no other
validateTechStack(techStack) ==
    (IF ~techStack.verified_at THEN 1 ELSE 0)
    + Sum([i \in 1..Len(techStack.techs) |->
             IF techStack.techs[i].path
                   \in {"frontend/framework", "frontend/react",
                        "frontend/typescript", "frontend/styling",
                        "frontend/state_management", "backend/database",
                        "backend/orm"}
             THEN validateTech(techStack.techs[i])
             ELSE 0])

\* validateCitations
validateCitations(decisions, techStack) ==
    LET errorCount ==
            Sum([i \in 1..Len(decisions) |-> validateDecision(decisions[i]).errors])
            + (IF techStack.present THEN validateTechStack(techStack) ELSE 0)
        warningCount ==
            Sum([i \in 1..Len(decisions) |-> validateDecision(decisions[i]).warnings])
    IN [score |-> IF errorCount > 0 THEN 0 ELSE Max(0, 100 - warningCount * 10),
        errors |-> errorCount, warnings |-> warningCount]

\* RegExp.test on a global regex, as hasIncompleteCode loops over the
\* patterns: the search starts at lastIndex; a match leaves lastIndex at its
\* end and returns at once, a failure leaves lastIndex 0
RECURSIVE testFrom(_, _, _)
testFrom(code, i, li) ==
    IF i > Len(Patterns) THEN [found |-> FALSE, lastIndex |-> li]
    ELSE LET p == Patterns[i]
             hits == {m \in code.marks[p] : m[1] >= li[p]}
         IN IF hits # {}
            THEN LET m == CHOOSE m \in hits : \A n \in hits : m[1] <= n[1]
                 IN [found |-> TRUE, lastIndex |-> [li EXCEPT ![p] = m[2]]]
            ELSE testFrom(code, i + 1, [li EXCEPT ![p] = 0])

\* hasIncompleteCode
hasIncompleteCode(code, li) == testFrom(code, 1, li)

\* validateSchemas, the loop over Object.entries(schemas)
RECURSIVE schemasFrom(_, _, _, _)
schemasFrom(schemas, i, li, issues) ==
    IF i > Len(schemas) THEN [issues |-> issues, lastIndex |-> li]
    ELSE LET content == schemas[i]
             incomplete == hasIncompleteCode(content, li)
             errors ==
                 (IF content.openBraces # content.closeBraces THEN 1 ELSE 0)
                 + (IF content.openParens # content.closeParens THEN 1 ELSE 0)
                 + (IF incomplete.found THEN 1 ELSE 0)
             warnings ==
                 IF content.emptyExport /\ ~content.exportsType THEN 1 ELSE 0
         IN schemasFrom(schemas, i + 1, incomplete.lastIndex,
                        [errors |-> issues.errors + errors,
                         warnings |-> issues.warnings + warnings])

\* validateSchemas
validateSchemas(schemas, li) ==
    LET r == schemasFrom(schemas, 1, li, [errors |-> 0, warnings |-> 0])
    IN [result |-> [score |-> IF r.issues.errors = 0 THEN 100 ELSE 0,
                    errors |-> r.issues.errors, warnings |-> r.issues.warnings],
        lastIndex |-> r.lastIndex]

\* dag[node] || []
Dependencies(dag, node) ==
    IF node \in Range(dag.keys)
    THEN dag.deps[CHOOSE i \in 1..Len(dag.keys) : dag.keys[i] = node]
    ELSE <<>>

\* (faulty variant: the whole search path is reported, from its first node)
CyclePath_FromRoot(path, node) == Append(path, node)

\* hasCycle, "Found a cycle": [...path.slice(cycleStart), node]
CyclePath(path, node) ==
    LET cycleStart == CHOOSE i \in 1..Len(path) :
                         path[i] = node /\ \A j \in 1..(i - 1) : path[j] # node
    IN Append(SubSeq(path, cycleStart, Len(path)), node)

\* validateDag, hasCycle: the depth-first search; st holds visited,
\* recursionStack and the cycle returned (<<>> for null)
RECURSIVE hasCycle(_, _, _, _)
RECURSIVE hasCycleIn(_, _, _, _, _)
hasCycle(dag, node, path, st) ==
    IF node \in st.recursionStack THEN [st EXCEPT !.cycle = CyclePath(path, node)]
    ELSE IF node \in st.visited THEN st
    ELSE LET entered == [st EXCEPT !.visited = @ \cup {node},
                                   !.recursionStack = @ \cup {node}]
             after == hasCycleIn(dag, Dependencies(dag, node), 1,
                                 Append(path, node), entered)
         IN IF after.cycle # <<>> THEN after
            ELSE [after EXCEPT !.recursionStack = @ \ {node}]

hasCycleIn(dag, dependencies, i, path, st) ==
    IF i > Len(dependencies) THEN st
    ELSE LET after == hasCycle(dag, dependencies[i], path, st)
         IN IF after.cycle # <<>> THEN after
            ELSE hasCycleIn(dag, dependencies, i + 1, path, after)

\* validateDag, the loop "Check each node"
RECURSIVE checkEachNode(_, _, _)
checkEachNode(dag, i, st) ==
    IF i > Len(dag.keys) THEN st
    ELSE IF dag.keys[i] \in st.visited THEN checkEachNode(dag, i + 1, st)
    ELSE LET after == hasCycle(dag, dag.keys[i], <<>>, st)
         IN IF after.cycle # <<>> THEN after
            ELSE checkEachNode(dag, i + 1, after)

\* (faulty variant: the check for missing dependencies is skipped once a
\* cycle was found)
MissingDependencies_UnlessCycle(dag, cycle) ==
    IF cycle # <<>> THEN 0
    ELSE Sum([i \in 1..Len(dag.keys) |->
                Cardinality({j \in 1..Len(dag.deps[i]) :
                                dag.deps[i][j] \notin Range(dag.keys)})])

\* validateDag, "Check for missing dependencies": the number of issues
MissingDependencies(dag, cycle) ==
    Sum([i \in 1..Len(dag.keys) |->
           Cardinality({j \in 1..Len(dag.deps[i]) :
                           dag.deps[i][j] \notin Range(dag.keys)})])

\* validateDag; cycle is the path of the cycle issue, <<>> when there is none
validateDag(dag) ==
    LET search == checkEachNode(dag, 1, [visited |-> {}, recursionStack |-> {},
                                         cycle |-> <<>>])
        errors == (IF search.cycle # <<>> THEN 1 ELSE 0)
                  + MissingDependencies(dag, search.cycle)
    IN [score |-> IF errors = 0 THEN 100 ELSE 0, errors |-> errors,
        warnings |-> 0, cycle |-> search.cycle]

\* (faulty variant: the first score only)
MathMin_First(scores) == scores[1]

\* Math.min(...allScores)
MathMin(scores) ==
    CHOOSE m \in Range(scores) : \A i \in 1..Len(scores) : m <= scores[i]

\* validateAll, line 102
Passes(confidenceScore) == confidenceScore = 100

\* validateAll; returns the report and the lastIndex the regexes are left with
validateAll(input, li) ==
    LET completenessResult == validateCompleteness(input.stories, li)
        atomicResult == validateAtomic(input.stories)
        citationResult == validateCitations(input.decisions, input.techStack)
        schemaResult == validateSchemas(input.schemas,
                                        completenessResult.lastIndex)
        dagResult == IF input.dependencyDag.present
                     THEN validateDag(input.dependencyDag)
                     ELSE [score |-> 100, errors |-> 0, warnings |-> 0,
                           cycle |-> <<>>]
        allScores == <<completenessResult.result.score, atomicResult.score,
                       citationResult.score, schemaResult.result.score,
                       dagResult.score>>
        confidenceScore == MathMin(allScores)
    IN [report |->
          [confidence_score |-> confidenceScore,
           passes |-> Passes(confidenceScore),
           breakdown |->
              [completeness |-> completenessResult.result,
               citations |-> citationResult,
               atomic |-> atomicResult,
               schemas |-> schemaResult.result,
               dag |-> dagResult]],
        lastIndex |-> schemaResult.lastIndex]

\* the module as loaded, and a caller with an empty ValidationInput
InitValidate ==
    /\ retryConfig = DEFAULT_RETRY_CONFIG
    /\ agent = IdleAgent
    /\ artifact = EmptyInput
    /\ report = NoReport
    /\ lastIndex = [p \in PatternNames |-> 0]
    /\ config = DEFAULT_ITERATION_CONFIG
    /\ status = "running"
    /\ current_phase = "discovery"
    /\ phases = createInitialState(config)
    /\ total_iterations = 0
    /\ cancelled = FALSE
    /\ stack = <<>>
    /\ exc = NoError
    /\ result = [state |-> "idle", error |-> NoError]
    /\ evCount = [t \in EventTypes |-> 0]
    /\ lastEvent = [type |-> "none", phase |-> "none"]
    /\ calls = [p \in Phases |-> 0]
    /\ sigs = [p \in {"challenge", "decomposition", "validation"} |->
                 [all |-> TRUE, any |-> FALSE, first |-> "none"]]
    /\ failure = [phase |-> "none", error |-> NoError]
    /\ cancelReq = FALSE
    /\ lateCalls = [afterFailure |-> FALSE, afterCancel |-> FALSE]
    /\ eventHandlers = <<>>
    /\ emitLoop = NoEmit
    /\ emitted = <<>>
    /\ deliveries = <<>>
    /\ snapshot = NoSnapshot
    /\ engine = [spec |-> initializeSpec, op |-> "initializeSpec",
                 task |-> <<>>, given |-> initializeSpec, threw |-> FALSE]
    /\ cacheFile = {}
    /\ verify = [pc |-> "idle", decisions |-> <<>>, i |-> 0, offline |-> FALSE,
                 apiKey |-> FALSE, loaded |-> {}, cache |-> {},
                 fetched |-> <<>>, saved |-> FALSE, outcome |-> "none"]

\* the number of pieces of a ValidationInput
Size(input) ==
    Len(input.stories) + Len(input.decisions) + Len(input.schemas)
    + Len(input.dependencyDag.keys) + (IF input.techStack.present THEN 1 ELSE 0)

Building == report = NoReport /\ Size(artifact) < MaxArtifactSize

\* the caller assembles a ValidationInput: one more story
AddStory ==
    /\ UNCHANGED <<orchVars, invokerVars, callerVars, toolVars>>
    /\ Building
    /\ Len(artifact.stories) < MaxStories
    /\ \E story \in StoryShapes :
          artifact' = [artifact EXCEPT !.stories = Append(@, story)]
    /\ UNCHANGED <<report, lastIndex>>

\* one more design decision
AddDecision ==
    /\ UNCHANGED <<orchVars, invokerVars, callerVars, toolVars>>
    /\ Building
    /\ Len(artifact.decisions) < MaxDecisions
    /\ \E decision \in DecisionShapes :
          artifact' = [artifact EXCEPT !.decisions = Append(@, decision)]
    /\ UNCHANGED <<report, lastIndex>>

\* one more schema
AddSchema ==
    /\ UNCHANGED <<orchVars, invokerVars, callerVars, toolVars>>
    /\ Building
    /\ Len(artifact.schemas) < MaxSchemas
    /\ \E content \in SchemaCodes :
          artifact' = [artifact EXCEPT !.schemas = Append(@, content)]
    /\ UNCHANGED <<report, lastIndex>>

\* the tech stack
SetTechStack ==
    /\ UNCHANGED <<orchVars, invokerVars, callerVars, toolVars>>
    /\ Building
    /\ ~artifact.techStack.present
    /\ \E techStack \in TechStacks :
          artifact' = [artifact EXCEPT !.techStack = techStack]
    /\ UNCHANGED <<report, lastIndex>>

\* one more key of the dependency map; an input that holds nothing but a
\* dependency map may have up to MaxDagKeys keys
AddDagNode ==
    /\ UNCHANGED <<orchVars, invokerVars, callerVars, toolVars>>
    /\ report = NoReport
    /\ IF Size(artifact) = Len(artifact.dependencyDag.keys)
       THEN Len(artifact.dependencyDag.keys) < MaxDagKeys
       ELSE Size(artifact) < MaxArtifactSize
    /\ \E node \in Nodes \ Range(artifact.dependencyDag.keys), deps \in DepLists :
          artifact' = [artifact EXCEPT
                         !.dependencyDag =
                            [present |-> TRUE, keys |-> Append(@.keys, node),
                             deps |-> Append(@.deps, deps)]]
    /\ UNCHANGED <<report, lastIndex>>

\* validateAll(input)
ValidateAll ==
    /\ UNCHANGED <<orchVars, invokerVars, callerVars, toolVars>>
    /\ report' = validateAll(artifact, lastIndex).report
    /\ lastIndex' = validateAll(artifact, lastIndex).lastIndex
    /\ UNCHANGED artifact

\* the caller turns to another input; the module's regexes live on
NewInput ==
    /\ UNCHANGED <<orchVars, invokerVars, callerVars, toolVars>>
    /\ report # NoReport
    /\ artifact' = EmptyInput
    /\ report' = NoReport
    /\ UNCHANGED lastIndex

NextValidate ==
    \/ AddStory
    \/ AddDecision
    \/ AddSchema
    \/ SetTechStack
    \/ AddDagNode
    \/ ValidateAll
    \/ NewInput

----------------------------------------------------------------------------
(***************************************************************************)
(* onEvent() and emit(): the listeners.  In Spec no listener is registered *)
(* and emit() only records the event; here emit() is followed through its *)
(* for loop, one handler call per step, for a run that has started.        *)
(***************************************************************************)

\* the smallest budgets: each loop runs once
SmallestConfig ==
    [discovery_challenge_max |-> 1, design_decomposition_max |-> 1,
     decomposition_validation_max |-> 1, min_confidence_score |-> 100]

\* new PipelineOrchestrator(agents, config), before the caller calls
\* start(), onEvent() or getState()
InitCaller ==
    /\ config = SmallestConfig
    /\ retryConfig = DEFAULT_RETRY_CONFIG
    /\ agent = IdleAgent
    /\ artifact = EmptyInput
    /\ report = NoReport
    /\ lastIndex = [p \in PatternNames |-> 0]
    /\ status = "running"
    /\ current_phase = "discovery"
    /\ phases = createInitialState(config)
    /\ total_iterations = 0
    /\ cancelled = FALSE
    /\ stack = <<>>
    /\ exc = NoError
    /\ result = [state |-> "idle", error |-> NoError]
    /\ evCount = [t \in EventTypes |-> 0]
    /\ lastEvent = [type |-> "none", phase |-> "none"]
    /\ calls = [p \in Phases |-> 0]
    /\ sigs = [p \in {"challenge", "decomposition", "validation"} |->
                 [all |-> TRUE, any |-> FALSE, first |-> "none"]]
    /\ failure = [phase |-> "none", error |-> NoError]
    /\ cancelReq = FALSE
    /\ lateCalls = [afterFailure |-> FALSE, afterCancel |-> FALSE]
    /\ eventHandlers = <<>>
    /\ emitLoop = NoEmit
    /\ emitted = <<>>
    /\ deliveries = <<>>
    /\ snapshot = NoSnapshot
    /\ engine = [spec |-> initializeSpec, op |-> "initializeSpec",
                 task |-> <<>>, given |-> initializeSpec, threw |-> FALSE]
    /\ cacheFile = {}
    /\ verify = [pc |-> "idle", decisions |-> <<>>, i |-> 0, offline |-> FALSE,
                 apiKey |-> FALSE, loaded |-> {}, cache |-> {},
                 fetched |-> <<>>, saved |-> FALSE, outcome |-> "none"]

\* what a registered handler does when called
HandlerKinds == {"returns", "throws"}

\* handler(event): the error it throws, if any
callHandler(h) == IF h = "throws" THEN "listener error" ELSE NoError

\* (faulty variant: the handler's error is not caught)
IgnoreHandlerError_Rethrow(e) == e

\* the catch block of emit(): `catch { /* Ignore handler errors */ }`; the
\* value is the error that leaves the try statement
IgnoreHandlerError(e) == NoError

\* onEvent(handler): the caller's code runs between two emits, never inside
\* the synchronous for loop
OnEvent ==
    /\ UNCHANGED <<orchVars, invokerVars, validateVars, toolVars>>
    /\ ~emitLoop.active
    /\ Len(eventHandlers) < MaxListeners
    /\ \E handler \in HandlerKinds :
          eventHandlers' = Append(eventHandlers, handler)
    /\ UNCHANGED <<emitLoop, emitted, deliveries, snapshot>>

\* emit(event), line 470: the run calls emit and the for loop begins
EmitBegin ==
    /\ UNCHANGED <<orchVars, invokerVars, validateVars, toolVars>>
    /\ result.state = "pending"
    /\ exc = NoError
    /\ ~emitLoop.active
    /\ emitLoop.event < MaxEmits
    /\ emitLoop' = [event |-> emitLoop.event + 1, i |-> 1, active |-> TRUE]
    /\ emitted' = Append(emitted, Len(eventHandlers))
    /\ UNCHANGED <<eventHandlers, deliveries, snapshot>>

\* emit(event), lines 471-475: one iteration of the for loop
EmitCall ==
    /\ UNCHANGED <<invokerVars, validateVars, toolVars>>
    /\ emitLoop.active
    /\ emitLoop.i <= Len(eventHandlers)
    /\ deliveries' = Append(deliveries,
           [event |-> emitLoop.event, position |-> emitLoop.i,
            handler |-> eventHandlers[emitLoop.i]])
    /\ LET e == IgnoreHandlerError(callHandler(eventHandlers[emitLoop.i]))
       IN IF e = NoError
          THEN /\ emitLoop' = [emitLoop EXCEPT !.i = @ + 1]
               /\ UNCHANGED exc
          ELSE /\ emitLoop' = [emitLoop EXCEPT !.active = FALSE]
               /\ exc' = e
    /\ UNCHANGED <<config, status, current_phase, phases, total_iterations,
                   cancelled, stack, result, evCount, lastEvent, calls, sigs,
                   failure, cancelReq, lateCalls>>
    /\ UNCHANGED <<eventHandlers, emitted, snapshot>>

\* emit(event), line 476: the for loop is over and emit returns
EmitReturn ==
    /\ UNCHANGED <<orchVars, invokerVars, validateVars, toolVars>>
    /\ emitLoop.active
    /\ emitLoop.i > Len(eventHandlers)
    /\ emitLoop' = [emitLoop EXCEPT !.active = FALSE]
    /\ UNCHANGED <<eventHandlers, emitted, deliveries, snapshot>>

NextEmit ==
    \/ Start
    \/ OnEvent
    \/ EmitBegin
    \/ EmitCall
    \/ EmitReturn

----------------------------------------------------------------------------
(***************************************************************************)
(* getState(): the caller takes a snapshot of a run and writes to it.  The *)
(* run has the smallest budgets; its agents may fail.                      *)
(***************************************************************************)

\* the caller's code runs before or after the run, or while the run is
\* suspended in an agent call
CallerRuns == IF stack = <<>> THEN TRUE ELSE Top.pc = "await"

\* getState(): `return { ...this.state }`, a shallow copy: status,
\* current_phase and total_iterations are copied, phases is the same object
\* as this.state.phases
GetState ==
    /\ UNCHANGED <<orchVars, invokerVars, validateVars, toolVars>>
    /\ CallerRuns
    /\ ~snapshot.taken
    /\ snapshot' = [taken |-> TRUE, status |-> status,
                    current_phase |-> current_phase,
                    total_iterations |-> total_iterations,
                    phases |-> "this.state.phases", written |-> FALSE]
    /\ UNCHANGED <<eventHandlers, emitLoop, emitted, deliveries>>

\* the value of the object that getState() returned, read through its fields
Returned ==
    [status |-> snapshot.status, current_phase |-> snapshot.current_phase,
     total_iterations |-> snapshot.total_iterations,
     phases |-> IF snapshot.phases = "this.state.phases" THEN phases
                ELSE <<>>]

\* the caller assigns to a top-level field of the returned object
WriteSnapshotField ==
    /\ UNCHANGED <<orchVars, invokerVars, validateVars, toolVars>>
    /\ CallerRuns
    /\ snapshot.taken
    /\ ~snapshot.written
    /\ snapshot' = [snapshot EXCEPT !.status = "failed", !.written = TRUE]
    /\ UNCHANGED <<eventHandlers, emitLoop, emitted, deliveries>>

\* the caller assigns to returned.phases[p].status: the assignment goes
\* through the reference to the object this.state.phases
WriteSnapshotPhase ==
    /\ UNCHANGED <<invokerVars, validateVars, toolVars>>
    /\ CallerRuns
    /\ snapshot.taken
    /\ ~snapshot.written
    /\ snapshot' = [snapshot EXCEPT !.written = TRUE]
    /\ \E p \in Phases :
          phases' = IF snapshot.phases = "this.state.phases"
                    THEN [phases EXCEPT ![p].status = "pending"]
                    ELSE phases
    /\ UNCHANGED <<config, status, current_phase, total_iterations,
                   cancelled, stack, exc, result, evCount, lastEvent, calls,
                   sigs, failure, cancelReq, lateCalls>>
    /\ UNCHANGED <<eventHandlers, emitLoop, emitted, deliveries>>

NextSnapshot ==
    \/ Start
    \/ StartNext
    \/ StartCatch
    \/ DiscoveryBegin
    \/ DiscoveryResolve
    \/ DiscoveryReject
    \/ ChallengeLoop
    \/ ChallengeResolve
    \/ ChallengeReject
    \/ DesignBegin
    \/ DesignResolve
    \/ DesignReject
    \/ DecompositionLoop
    \/ DecompositionResolve
    \/ DecompositionReject
    \/ ValidationLoop
    \/ ValidationResolve
    \/ ValidationReject
    \/ SynthesisBegin
    \/ SynthesisResolve
    \/ SynthesisReject
    \/ GetState
    \/ WriteSnapshotField
    \/ WriteSnapshotPhase

----------------------------------------------------------------------------
(***************************************************************************)
(* start(), cancel() and onEvent() called again after the run has ended.   *)
(* The run has the smallest budgets; its agents may fail.                  *)
(***************************************************************************)

\* start(), lines 66-73, called on an orchestrator whose earlier run has
\* ended: nothing in start() tests or resets the state left by that run
StartAgain ==
    /\ UNCHANGED <<invokerVars, validateVars, callerVars, toolVars>>
    /\ result.state \in {"resolved", "rejected"}
    /\ evCount["pipeline_completed"] + evCount["pipeline_failed"] < MaxRuns
    /\ status' = "running"
    /\ phases' = [phases EXCEPT !["discovery"].input =
                     [NoInput EXCEPT !.user = 2]]
    /\ result' = [state |-> "pending", error |-> NoError]
    /\ stack' = <<[Frame("start", "called", Outputs) EXCEPT !.idx = 1],
                  RunnerFrame("discovery")>>
    /\ UNCHANGED <<config, current_phase, total_iterations, cancelled, exc,
                   evCount, lastEvent, calls, sigs, failure, cancelReq, lateCalls>>

NextRestart ==
    \/ Start
    \/ StartAgain
    \/ Cancel
    \/ OnEvent
    \/ StartNext
    \/ StartCatch
    \/ DiscoveryBegin
    \/ DiscoveryResolve
    \/ DiscoveryReject
    \/ ChallengeLoop
    \/ ChallengeResolve
    \/ ChallengeReject
    \/ DesignBegin
    \/ DesignResolve
    \/ DesignReject
    \/ DecompositionLoop
    \/ DecompositionResolve
    \/ DecompositionReject
    \/ ValidationLoop
    \/ ValidationResolve
    \/ ValidationReject
    \/ SynthesisBegin
    \/ SynthesisResolve
    \/ SynthesisReject

(***************************************************************************)
(* SpecEngine (src/lib/spec/engine.ts) and verifyDecisions                 *)
(* (src/lib/verify/exa.js, cache.js)                                       *)
(*                                                                         *)
(* A task is known by its list of files. A decision to verify is known by  *)
(* the query that buildQuery makes of it; a cache holds entries with       *)
(* results, as setCachedQuery writes them, and is known by their queries.  *)
(***************************************************************************)

\* SpecTask.files of the tasks a caller may add
TaskShapes ==
    {<<>>, <<"package.json", "tsconfig.json">>, <<"a.ts", "b.ts", "c.ts">>,
     <<"a.ts", "b.ts", "c.ts", "d.ts">>}

\* buildQuery(decision.queryBase ?? decision.query ?? decision.choice,
\* verificationDate)
Queries == {"q1 as of 2026-01-17", "q2 as of 2026-01-17"}

\* a SpecEngine whose caller holds the result of initializeSpec(); no
\* verifyDecisions call yet; any cache file
InitTools ==
    /\ config = SmallestConfig
    /\ retryConfig = DEFAULT_RETRY_CONFIG
    /\ agent = IdleAgent
    /\ artifact = EmptyInput
    /\ report = NoReport
    /\ lastIndex = [p \in PatternNames |-> 0]
    /\ status = "running"
    /\ current_phase = "discovery"
    /\ phases = createInitialState(config)
    /\ total_iterations = 0
    /\ cancelled = FALSE
    /\ stack = <<>>
    /\ exc = NoError
    /\ result = [state |-> "idle", error |-> NoError]
    /\ evCount = [t \in EventTypes |-> 0]
    /\ lastEvent = [type |-> "none", phase |-> "none"]
    /\ calls = [p \in Phases |-> 0]
    /\ sigs = [p \in {"challenge", "decomposition", "validation"} |->
                 [all |-> TRUE, any |-> FALSE, first |-> "none"]]
    /\ failure = [phase |-> "none", error |-> NoError]
    /\ cancelReq = FALSE
    /\ lateCalls = [afterFailure |-> FALSE, afterCancel |-> FALSE]
    /\ eventHandlers = <<>>
    /\ emitLoop = NoEmit
    /\ emitted = <<>>
    /\ deliveries = <<>>
    /\ snapshot = NoSnapshot
    /\ engine = [spec |-> initializeSpec, op |-> "initializeSpec",
                 task |-> <<>>, given |-> initializeSpec, threw |-> FALSE]
    /\ cacheFile \in SUBSET Queries
    /\ verify = [pc |-> "idle", decisions |-> <<>>, i |-> 0, offline |-> FALSE,
                 apiKey |-> FALSE, loaded |-> {}, cache |-> {},
                 fetched |-> <<>>, saved |-> FALSE, outcome |-> "none"]

\* (faulty variant: no check of the number of files)
addAtomicTask_Unchecked(spec, task) ==
    [threw |-> FALSE, spec |-> [spec EXCEPT !.tasks = Append(@, task)]]

\* SpecEngine.addAtomicTask: whether it throws, and the SpecPack it returns
\* (spec stands for "no value" when it throws)
addAtomicTask(spec, task) ==
    IF Len(task) > 3
    THEN [threw |-> TRUE, spec |-> spec]
    ELSE [threw |-> FALSE, spec |-> [spec EXCEPT !.tasks = Append(@, task)]]

\* SpecEngine.calculateQuality; Math.round of a non-negative quotient p / q
\* is (2p + q) \div 2q
calculateQuality(spec) ==
    LET n == Len(spec.tasks)
        atomicTasks == Cardinality({i \in 1..n : Len(spec.tasks[i]) <= 3})
        d == Len(spec.decisions)
        verifiedDecisions == Cardinality({i \in 1..d : spec.decisions[i] > 0})
    IN [spec EXCEPT
          !.quality.atomicTaskCompliance =
              IF n > 0 THEN (200 * atomicTasks + n) \div (2 * n) ELSE 100,
          !.quality.citationCoverage =
              IF d > 0 THEN (200 * verifiedDecisions + d) \div (2 * d) ELSE 0,
          !.quality.totalScore =
              IF n > 0 /\ d > 0
              THEN (2 * (60 * atomicTasks * d + 40 * verifiedDecisions * n)
                    + n * d) \div (2 * n * d)
              ELSE IF n > 0 THEN (120 * atomicTasks + n) \div (2 * n)
              ELSE IF d > 0 THEN (2 * (60 * d + 40 * verifiedDecisions) + d)
                                 \div (2 * d)
              ELSE 60]

\* the caller calls engine.addAtomicTask(spec, task) on the SpecPack it holds
\* and keeps the SpecPack returned, if one is
AddAtomicTask ==
    /\ UNCHANGED <<orchVars, invokerVars, validateVars, callerVars>>
    /\ Len(engine.spec.tasks) < MaxTasks
    /\ \E task \in TaskShapes :
          LET r == addAtomicTask(engine.spec, task)
          IN engine' = [spec |-> IF r.threw THEN engine.spec ELSE r.spec,
                        op |-> "addAtomicTask", task |-> task,
                        given |-> engine.spec, threw |-> r.threw]
    /\ UNCHANGED <<cacheFile, verify>>

\* the caller calls engine.calculateQuality(spec) and keeps the result
CalculateQuality ==
    /\ UNCHANGED <<orchVars, invokerVars, validateVars, callerVars>>
    /\ engine.op # "calculateQuality"
    /\ engine' = [spec |-> calculateQuality(engine.spec),
                  op |-> "calculateQuality", task |-> <<>>,
                  given |-> engine.spec, threw |-> FALSE]
    /\ UNCHANGED <<cacheFile, verify>>

NextEngine == AddAtomicTask \/ CalculateQuality

\* (faulty variant: every lookup misses)
getCachedQuery_Miss(cache, query) == FALSE

\* getCachedQuery(cache, query)?.results: whether the cache has results for
\* the query
getCachedQuery(cache, query) == query \in cache

\* verifyDecisions, lines 43-55: the call, with its arguments and the
\* EXA_API_KEY of the environment; loadCache reads the cache file
VerifyDecisions ==
    /\ UNCHANGED <<orchVars, invokerVars, validateVars, callerVars>>
    /\ verify.pc \in {"idle", "done"}
    /\ \E decisions \in UNION {[1..n -> Queries] : n \in 0..MaxQueries},
          offline \in BOOLEAN, apiKey \in BOOLEAN :
          verify' = [pc |-> "loop", decisions |-> decisions, i |-> 1,
                     offline |-> offline, apiKey |-> apiKey,
                     loaded |-> cacheFile, cache |-> cacheFile,
                     fetched |-> <<>>, saved |-> FALSE, outcome |-> "none"]
    /\ UNCHANGED <<engine, cacheFile>>

\* verifyDecisions, lines 57-98: one turn of the loop over the decisions;
\* fetchExaResults answers with results, with none, or fails
VerifyStep ==
    /\ UNCHANGED <<orchVars, invokerVars, validateVars, callerVars>>
    /\ verify.pc = "loop"
    /\ verify.i <= Len(verify.decisions)
    /\ LET query == verify.decisions[verify.i]
       IN IF getCachedQuery(verify.cache, query)
          THEN verify' = [verify EXCEPT !.i = @ + 1]
          ELSE IF verify.offline \/ ~verify.apiKey
          THEN verify' = [verify EXCEPT !.pc = "done", !.outcome = "threw"]
          ELSE \E answer \in {"results", "no results", "failed"} :
                  verify' =
                     IF answer = "results"
                     THEN [verify EXCEPT !.fetched = Append(@, query),
                                         !.cache = @ \cup {query},
                                         !.i = @ + 1]
                     ELSE [verify EXCEPT !.fetched = Append(@, query),
                                         !.pc = "done", !.outcome = "threw"]
    /\ UNCHANGED <<engine, cacheFile>>

\* verifyDecisions, lines 100-104: after the loop the cache is saved if
\* setCachedQuery has made a new one, and the call returns
VerifyReturn ==
    /\ UNCHANGED <<orchVars, invokerVars, validateVars, callerVars>>
    /\ verify.pc = "loop"
    /\ verify.i > Len(verify.decisions)
    /\ IF verify.cache # verify.loaded
       THEN /\ cacheFile' = verify.cache
            /\ verify' = [verify EXCEPT !.pc = "done", !.saved = TRUE,
                                        !.outcome = "returned"]
       ELSE /\ UNCHANGED cacheFile
            /\ verify' = [verify EXCEPT !.pc = "done", !.outcome = "returned"]
    /\ UNCHANGED engine

NextVerify == VerifyDecisions \/ VerifyStep \/ VerifyReturn


----------------------------------------------------------------------------
Spec == Init /\ [][Next]_vars

\* a run in progress goes on: the continuation of an await runs once the
\* agent call has returned or failed, and every agent call does
SpecFair == Init /\ [][Next]_vars /\ WF_vars(Next /\ stack # <<>>)

SpecInvoker == InitInvoker /\ [][NextInvoker]_vars

SpecValidate == InitValidate /\ [][NextValidate]_vars

SpecEmit == InitCaller /\ [][NextEmit]_vars

SpecSnapshot == InitCaller /\ [][NextSnapshot]_vars

SpecRestart == InitCaller /\ [][NextRestart]_vars

SpecEngineRun == InitTools /\ [][NextEngine]_vars

SpecVerify == InitTools /\ [][NextVerify]_vars

----------------------
(***************************************************************************)
(* Properties of the orchestrator (specification Spec)                     *)
(***************************************************************************)

NoAgentFailed == failure.phase = "none"
Ended == result.state \in {"resolved", "rejected"}

\* C1: the agents are first invoked in the order discovery, challenge,
\* design, decomposition, validation, synthesis: an agent has been invoked
\* only if every earlier phase holds an output; and when no loop-back was
\* signalled and the first validation passed, no agent is invoked more than
\* once, the first five exactly once, and synthesis exactly once when the run
\* completes.
C1_FixedOrder ==
    LET order == <<"discovery", "challenge", "design", "decomposition",
                   "validation", "synthesis">>
    IN /\ \A j \in 1..6 : \A i \in 1..(j - 1) :
             calls[order[j]] > 0 => phases[order[i]].output.ver > 0
       /\ (/\ sigs["validation"].first = "true"
           /\ ~sigs["challenge"].any
           /\ ~sigs["decomposition"].any)
          => /\ \A i \in 1..5 : calls[order[i]] = 1
             /\ calls["synthesis"] <= 1
             /\ status = "completed" => calls["synthesis"] = 1

\* a run without loop-back whose first validation passed has completed
C1_Witness ==
    /\ status = "completed"
    /\ sigs["validation"].first = "true"
    /\ ~sigs["challenge"].any
    /\ ~sigs["decomposition"].any
    /\ calls["synthesis"] = 1

\* C2: the synthesis agent is invoked only after the most recent validation
\* output passed, and the run completes only then, whatever the cap
C2_SynthesisOnlyAfterPass ==
    /\ calls["synthesis"] > 0 =>
          /\ phases["validation"].output.ver > 0
          /\ phases["validation"].output.sig
    /\ status = "completed" =>
          /\ phases["validation"].output.ver > 0
          /\ phases["validation"].output.sig

\* a run completed after a failing validation was followed by a passing one,
\* under a finite cap
C2_Witness ==
    /\ status = "completed"
    /\ calls["validation"] = 2
    /\ config.decomposition_validation_max = 2

\* C3: once an agent's execute() has rejected in phase p, p is failed with
\* the error recorded, no agent is invoked any more, and start() ends
\* rejected with that error and pipeline status failed
C3_AgentFailureIsFatal ==
    ~NoAgentFailed =>
        /\ phases[failure.phase].status = "failed"
        /\ phases[failure.phase].error = failure.error
        /\ ~lateCalls.afterFailure
        /\ result.state # "resolved"
        /\ status # "completed"
        /\ exc \in {NoError, failure.error}
        /\ Ended => /\ status = "failed"
                    /\ result.state = "rejected"
                    /\ result.error = failure.error

\* start() has rejected with the error of a design call that failed when
\* re-executed from the decomposition loop
C3_Witness ==
    /\ failure.phase = "design"
    /\ calls["design"] = 2
    /\ result.state = "rejected"
    /\ result.error = failure.error
    /\ status = "failed"

\* C4: with a challenge agent that always asks for a discovery loop, and
\* discovery_challenge_max >= 1, the challenge phase completes after exactly
\* discovery_challenge_max executions of discovery and of challenge, and the
\* run goes on to design without failing
C4_SoftCap ==
    (/\ sigs["challenge"].all
     /\ config.discovery_challenge_max >= 1)
    => /\ calls["challenge"] <= config.discovery_challenge_max
       /\ calls["discovery"] <= config.discovery_challenge_max
       /\ phases["challenge"].status = "completed" =>
             /\ calls["challenge"] = config.discovery_challenge_max
             /\ calls["discovery"] = config.discovery_challenge_max
             /\ phases["challenge"].error = NoError
             /\ (phases["design"].status = "pending" /\ ~cancelled) =>
                   /\ status = "running"
                   /\ exc = NoError
                   /\ result.state = "pending"

\* the design agent is invoked after two challenge outputs that both asked
\* for a loop
C4_Witness ==
    /\ sigs["challenge"].all
    /\ config.discovery_challenge_max = 2
    /\ calls["challenge"] = 2
    /\ calls["discovery"] = 2
    /\ calls["design"] = 1
    /\ status = "running"

\* C5: with a finite cap N >= 1 and a validation agent that never passes,
\* the validation agent is invoked at most N times and synthesis never; the
\* N-th failing output fails the validation phase and the pipeline, and
\* start() raises
C5_HardCap ==
    (/\ config.decomposition_validation_max # Unlimited
     /\ config.decomposition_validation_max >= 1
     /\ ~sigs["validation"].any)
    => /\ calls["validation"] <= config.decomposition_validation_max
       /\ calls["synthesis"] = 0
       /\ status # "completed"
       /\ phases["validation"].output.ver = config.decomposition_validation_max
             => /\ phases["validation"].status = "failed"
                /\ phases["validation"].error = CapError
                /\ \/ exc = CapError
                   \/ /\ result = [state |-> "rejected", error |-> CapError]
                      /\ status = "failed"
       /\ (phases["validation"].status = "failed" /\ NoAgentFailed)
             => /\ calls["validation"] = config.decomposition_validation_max
                /\ phases["validation"].error = CapError

\* start() has raised after exactly two failing validations under cap 2
C5_Witness ==
    /\ config.decomposition_validation_max = 2
    /\ ~sigs["validation"].any
    /\ calls["validation"] = 2
    /\ result = [state |-> "rejected", error |-> CapError]
    /\ status = "failed"
    /\ calls["synthesis"] = 0

\* C8: once cancel() has been requested during a run, no further agent call
\* is started in that run, and start() ends with pipeline status failed
C8_NoCallAfterCancel ==
    cancelReq =>
        /\ ~lateCalls.afterCancel
        /\ Ended => status = "failed"

----------------------------------------------------------------------------
(***************************************************************************)
(* Properties of the agent invoker (specification SpecInvoker)             *)
(***************************************************************************)

\* invocation attempts started so far, and how many of them have failed
Attempts == Len(agent.log) + (IF agent.pc = "await" THEN 1 ELSE 0)
Failures == Cardinality({i \in 1..Len(agent.log) : agent.log[i] # NoError})
AllFailed == \A i \in 1..Len(agent.log) : agent.log[i] # NoError
Exhausted == Failures = retryConfig.maxRetries + 1

\* C6: against a collaborator whose every attempt fails, execute() makes
\* exactly maxRetries + 1 invocation attempts and then raises with the error
\* of the last attempt; it never makes more attempts, and never raises after
\* fewer.
C6_ExactlyMaxRetriesPlusOne ==
    /\ Attempts <= retryConfig.maxRetries + 1
    /\ agent.outcome = "raised" => Len(agent.log) = retryConfig.maxRetries + 1
    /\ (agent.pc = "done" /\ AllFailed) =>
          /\ Len(agent.log) = retryConfig.maxRetries + 1
          /\ agent.outcome = "raised"
          /\ agent.error = agent.log[Len(agent.log)]

C6_Witness ==
    /\ agent.pc = "done"
    /\ agent.outcome = "raised"
    /\ retryConfig.maxRetries = MaxRetriesBound
    /\ agent.log[1] \in TransportErrors
    /\ agent.log[2] = ParseError
    /\ agent.error = ShapeError

\* C9: execute() returns an output only if the shape validator accepts it and
\* the attempt that produced it is the last one made; every earlier attempt
\* failed. An attempt that fails shape validation counts as a failed attempt
\* like any other: it is counted in retries, it is followed by the backoff
\* wait of its attempt number when attempts remain, and when it is the last
\* attempt allowed execute() raises with its error.
C9_ShapeValidationGuardsOutput ==
    /\ agent.outcome = "returned" =>
          /\ agent.pc = "done"
          /\ isValidValidationOutput(agent.data)
          /\ agent.log[Len(agent.log)] = NoError
    /\ \A i \in 1..(Len(agent.log) - 1) : agent.log[i] # NoError
    /\ (Len(agent.log) > 0 /\ agent.log[Len(agent.log)] = NoError) =>
          agent.outcome = "returned"
    /\ agent.retries = Failures
    /\ \A i \in 1..Len(agent.log) :
          agent.log[i] = ShapeError =>
             IF i <= retryConfig.maxRetries
             THEN /\ Len(agent.waits) >= i
                  /\ agent.waits[i] = Min(retryConfig.baseDelayMs * Pow2(i - 1),
                                          retryConfig.maxDelayMs)
             ELSE /\ Len(agent.waits) = retryConfig.maxRetries
                  /\ agent.pc = "done" =>
                        agent.outcome = "raised" /\ agent.error = ShapeError

C9_Witness ==
    /\ agent.outcome = "returned"
    /\ agent.data = FailingOutput
    /\ Len(agent.log) = 3
    /\ agent.log[1] = ShapeError
    /\ agent.log[2] = ShapeError
    /\ Len(agent.waits) = 2

\* C10: the wait after failed attempt number k (from 0) is
\* min(baseDelayMs * 2^k, maxDelayMs); the waits are non-decreasing and at
\* most maxDelayMs; there is one wait per failed attempt except the final
\* one allowed, and none after a successful attempt.
C10_BackoffSchedule ==
    /\ \A k \in 1..Len(agent.waits) :
          /\ agent.waits[k] = Min(retryConfig.baseDelayMs * Pow2(k - 1),
                                  retryConfig.maxDelayMs)
          /\ agent.waits[k] <= retryConfig.maxDelayMs
    /\ \A k \in 1..(Len(agent.waits) - 1) : agent.waits[k] <= agent.waits[k + 1]
    /\ Len(agent.waits) = IF Exhausted THEN Failures - 1 ELSE Failures
    /\ agent.pc = "sleep" =>
          /\ agent.log[Len(agent.log)] # NoError
          /\ Len(agent.log) <= retryConfig.maxRetries

C10_Witness ==
    /\ agent.pc = "done"
    /\ agent.outcome = "raised"
    /\ Len(agent.waits) = 3
    /\ agent.waits[1] < agent.waits[2]
    /\ agent.waits[2] < agent.waits[3]
    /\ agent.waits[3] = retryConfig.maxDelayMs
    /\ retryConfig.baseDelayMs * 4 > retryConfig.maxDelayMs

\* C21: a call that has not answered when the configured per-call timeout
\* elapses is abandoned and counted as a failed attempt: no call is still
\* pending once its timeout has elapsed, and execute() never returns the
\* answer of such a call.
C21_TimedOutCallIsAbandoned ==
    /\ agent.overdue => agent.pc # "await"
    /\ (agent.pc = "done" /\ agent.outcome = "returned") => ~agent.overdue

----------------------------------------------------------------------------
(***************************************************************************)
(* Properties of validateAll (specification SpecValidate)                  *)
(***************************************************************************)

Categories == {"completeness", "citations", "atomic", "schemas", "dag"}

\* C7: in every report of validateAll, confidence_score is the minimum of
\* the five category scores of the breakdown (it is one of them and none is
\* lower), and passes is true exactly when confidence_score is 100.
C7_ConfidenceIsMinimum ==
    report # NoReport =>
       /\ \E c \in Categories : report.confidence_score = report.breakdown[c].score
       /\ \A c \in Categories : report.confidence_score <= report.breakdown[c].score
       /\ report.passes <=> report.confidence_score = 100

C7_Witness ==
    /\ report # NoReport
    /\ ~report.passes
    /\ report.confidence_score = 80
    /\ report.breakdown["citations"].score = 80
    /\ report.breakdown["completeness"].score = 85
    /\ report.breakdown["atomic"].score = 100
    /\ Len(artifact.stories) = 1
    /\ Len(artifact.decisions) = 1

----------------------------------------------------------------------------
(***************************************************************************)
(* The design/decomposition loop                                           *)
(***************************************************************************)

\* the positions of the stack held by runDecompositionPhase
DecompositionFrames ==
    {i \in 1..Len(stack) : stack[i].fn = "decomposition"}

\* C11: with a decomposition agent whose every output has
\* has_non_atomic_tasks = true, no failing agent and
\* design_decomposition_max = M >= 1, each entry into runDecompositionPhase
\* invokes the decomposition agent at most M times, loops back only while
\* its iteration count is below M, runs design exactly once per loop-back
\* before the next decomposition call, and ends with the phase completed
\* after exactly M decomposition calls.
C11_DecompositionLoopBudget ==
    LET M == config.design_decomposition_max
    IN (/\ sigs["decomposition"].all
        /\ NoAgentFailed
        /\ M >= 1)
       => /\ \A i \in DecompositionFrames :
                LET f == stack[i]
                    n == calls["decomposition"] - f.cap.decomposition
                    d == calls["design"] - f.cap.design
                IN /\ n <= M
                   /\ f.pc = "loop" => (f.it = 0 /\ n = 0 /\ d = 0)
                   /\ f.pc = "await" => (n = f.it + 1 /\ d = f.it)
                   /\ f.pc = "called" =>
                         /\ f.it < M
                         /\ n = f.it
                         /\ d \in {f.it - 1, f.it}
                         /\ i = Len(stack) => d = f.it
          /\ (/\ phases["decomposition"].status = "completed"
              /\ DecompositionFrames = {})
             => /\ calls["decomposition"] >= M
                /\ calls["decomposition"] % M = 0
                /\ phases["decomposition"].error = NoError
                /\ calls["validation"] = 0 =>
                      /\ calls["decomposition"] = M
                      /\ calls["design"] = M

\* the validation agent is invoked after two decomposition outputs that both
\* reported non-atomic tasks, design having run twice
C11_Witness ==
    /\ sigs["decomposition"].all
    /\ NoAgentFailed
    /\ config.design_decomposition_max = 2
    /\ calls["decomposition"] = 2
    /\ calls["design"] = 2
    /\ phases["decomposition"].status = "completed"
    /\ calls["validation"] = 1

\* C12 (as amended): when the decomposition output still reports
\* has_non_atomic_tasks = true on the iteration that exhausts
\* design_decomposition_max, runDecompositionPhase ends with the phase
\* completed and no error, and the run goes on to validation: it is not failed
\* by the exhausted budget.
C12_ExhaustedBudgetIsSoft ==
    (/\ phases["decomposition"].status = "completed"
     /\ phases["decomposition"].output.sig
     /\ DecompositionFrames = {}
     /\ NoAgentFailed)
    => /\ phases["decomposition"].error = NoError
       /\ exc \in {NoError, CancelledError, CapError}
       /\ calls["validation"] = 0 =>
             /\ calls["decomposition"] = config.design_decomposition_max
             /\ exc # CapError
             /\ ~cancelled => /\ status = "running"
                              /\ exc = NoError
                              /\ result.state = "pending"

\* a run has completed although the only decomposition output allowed by the
\* budget still reported non-atomic tasks
C12_Witness ==
    /\ config.design_decomposition_max = 1
    /\ calls["decomposition"] = 1
    /\ phases["decomposition"].output.sig
    /\ calls["validation"] = 1
    /\ status = "completed"

\* C12 (as stated): once the decomposition output of the iteration that
\* exhausts the budget has reported has_non_atomic_tasks = true, the
\* validation agent is not invoked and the run ends failed.
C12_ExhaustedBudgetIsFatal ==
    (/\ config.design_decomposition_max >= 1
     /\ sigs["decomposition"].all
     /\ phases["decomposition"].output.ver = config.design_decomposition_max)
    => /\ calls["validation"] = 0
       /\ Ended => status = "failed"

----------------------------------------------------------------------------
(***************************************************************************)
(* The validation loop                                                     *)
(***************************************************************************)

\* C13: a validation call that is not the first of the run is started only
\* after upstream work was re-executed since the previous validation call:
\* the last event emitted before it is the completion of the decomposition
\* phase (which ends both the design-then-decomposition and the
\* decomposition-alone re-execution).
C13_ReexecutionBetweenValidations ==
    [][(/\ calls'["validation"] = calls["validation"] + 1
        /\ calls["validation"] >= 1)
       => lastEvent = [type |-> "phase_completed", phase |-> "decomposition"]
      ]_vars

\* C14: whenever the run has reached status completed, the quality report of
\* the last validation output has confidence_score = 100, which is at least
\* the configured min_confidence_score.
C14_CompletedMeansFullConfidence ==
    status = "completed" =>
        /\ phases["validation"].output.score = 100
        /\ phases["validation"].output.score >= config.min_confidence_score

----------------------------------------------------------------------------
(***************************************************************************)
(* Pipeline status and phase statuses                                      *)
(***************************************************************************)

AllPhasesCompleted == \A p \in Phases : phases[p].status = "completed"

\* C15: in every reachable state, pipeline status completed implies that all
\* six phases are completed, pipeline status failed implies that at least
\* one phase is failed, and once all six phases are completed and start()
\* has ended the pipeline status is completed.
C15_StatusAgreesWithPhases ==
    /\ status = "completed" => AllPhasesCompleted
    /\ status = "failed" => \E p \in Phases : phases[p].status = "failed"
    /\ (AllPhasesCompleted /\ Ended) => status = "completed"

\* the status changes of a PhaseState that the state machine allows
AllowedTransitions ==
    {<<"pending", "running">>, <<"running", "iterating">>,
     <<"iterating", "running">>, <<"running", "completed">>,
     <<"iterating", "completed">>, <<"running", "failed">>,
     <<"iterating", "failed">>}

\* C16: the status of each PhaseState changes only along pending -> running,
\* running -> iterating, iterating -> running, running/iterating ->
\* completed and running/iterating -> failed; so a completed or failed phase
\* never changes status again and no phase goes from pending to completed.
C16_PhaseStatusTransitions ==
    [][\A p \in Phases :
          phases'[p].status # phases[p].status
          => <<phases[p].status, phases'[p].status>> \in AllowedTransitions
      ]_vars

----------------------------------------------------------------------------
(***************************************************************************)
(* One agent call at a time                                                *)
(***************************************************************************)

\* the execute() calls that have returned, and those that have failed
SettledCalls ==
    phases["discovery"].iterations + phases["challenge"].iterations
    + phases["design"].iterations + phases["decomposition"].iterations
    + phases["validation"].iterations + phases["synthesis"].iterations
    + (IF failure.phase = "none" THEN 0 ELSE 1)

\* C17: within a run at most one agent call is in flight: the calls started
\* exceed the calls that returned or failed by at most one, the pending call
\* is the one the innermost runner awaits, and no enclosing runner awaits an
\* agent while a nested loop-back runner executes.
C17_OneCallInFlight ==
    /\ TotalCalls - SettledCalls \in {0, 1}
    /\ TotalCalls - SettledCalls = 1
          <=> (Len(stack) > 0 /\ stack[Len(stack)].pc = "await")
    /\ \A i \in 1..(Len(stack) - 1) : stack[i].pc # "await"

\* the design agent's call is in flight inside a loop-back made by the
\* validation phase, all earlier calls having returned
C17_Witness ==
    /\ Len(stack) = 3
    /\ stack[2].fn = "validation"
    /\ stack[3].fn = "design"
    /\ stack[3].pc = "await"
    /\ TotalCalls - SettledCalls = 1
    /\ TotalCalls >= 6

----------------------------------------------------------------------------
(***************************************************************************)
(* Properties of the listeners (specification SpecEmit)                    *)
(***************************************************************************)

\* the handler calls made for the k-th emitted event, in the order made
DeliveriesOf(k) == SelectSeq(deliveries, LAMBDA d : d.event = k)

\* C18: for every emitted event each listener registered at the time is
\* called once, in registration order, whether or not an earlier listener
\* threw; and no listener's error leaves emit(): the run's pipeline status,
\* phase statuses and the pending result of start() stay as they were.
C18_ListenersIsolated ==
    /\ \A k \in 1..Len(emitted) :
          /\ Len(DeliveriesOf(k)) <= emitted[k]
          /\ \A j \in 1..Len(DeliveriesOf(k)) :
                /\ DeliveriesOf(k)[j].position = j
                /\ DeliveriesOf(k)[j].handler = eventHandlers[j]
          /\ (k < emitLoop.event \/ ~emitLoop.active)
                => Len(DeliveriesOf(k)) = emitted[k]
    /\ \A a, b \in 1..Len(deliveries) :
          a < b => deliveries[a].event <= deliveries[b].event
    /\ exc = NoError
    /\ status = "running"
    /\ \A p \in Phases : phases[p].status = "pending"
    /\ result.state \in {"idle", "pending"}
    /\ result.error = NoError

\* two events were each delivered to a throwing listener and then to the
\* listener registered after it
C18_Witness ==
    /\ eventHandlers = <<"throws", "returns">>
    /\ emitted = <<2, 2>>
    /\ Len(deliveries) = 4
    /\ deliveries[4] = [event |-> 2, position |-> 2, handler |-> "returns"]
    /\ ~emitLoop.active
    /\ result.state = "pending"

----------------------------------------------------------------------------
(***************************************************************************)
(* Properties of getState() (specification SpecSnapshot)                   *)
(***************************************************************************)

\* C19: the value returned by getState() is a read-only snapshot: a step of
\* the run does not change the value read through the returned object, and
\* an assignment the caller makes through the returned object, its phases
\* map included, does not change the orchestrator's own state.
C19_SnapshotIsolated ==
    [][IF snapshot'.written # snapshot.written
       THEN UNCHANGED <<status, current_phase, total_iterations, phases>>
       ELSE snapshot.taken => Returned' = Returned
      ]_vars

----------------------------------------------------------------------------
(***************************************************************************)
(* Properties of an ended run (specification SpecRestart)                  *)
(***************************************************************************)

\* C20: once the pipeline status is completed or failed, no call of
\* start(), cancel() or onEvent() changes the pipeline status, a PhaseState
\* or the iteration counters.
C20_EndedRunIsReadOnly ==
    [][(status = "completed" \/ status = "failed")
       => (status' = status /\ phases' = phases
           /\ total_iterations' = total_iterations)
      ]_vars

\* the distinct file paths a story names, in files_affected and in its steps
PathsOf(story) ==
    Range(story.files_affected)
    \cup {story.steps[i].file_path : i \in 1..Len(story.steps)}

\* the stories of the validated input that name more than three distinct paths
Oversized ==
    {i \in 1..Len(artifact.stories) :
        Cardinality(PathsOf(artifact.stories[i])) > 3}

\* C22: validateAtomic gives score 0 exactly when some story names more than
\* three distinct file paths (files_affected united with the steps' paths, a
\* repeated path counted once) and 100 otherwise; every such story yields
\* exactly one issue, an error, and no other issue is reported.
C22_AtomicScoreIsBinary ==
    report # NoReport
    => /\ report.breakdown.atomic.score = (IF Oversized # {} THEN 0 ELSE 100)
       /\ report.breakdown.atomic.errors = Cardinality(Oversized)
       /\ report.breakdown.atomic.warnings = 0

\* a validated input with a story of four distinct paths and a story whose
\* step repeats a path of files_affected and that stays at three
C22_Witness ==
    /\ report # NoReport
    /\ Oversized # {}
    /\ \E i \in 1..Len(artifact.stories) :
          /\ i \notin Oversized
          /\ Len(artifact.stories[i].files_affected)
             + Len(artifact.stories[i].steps) > 3

\* the dependency edges of the validated input: a key and a dependency it lists
DagEdges ==
    {e \in Nodes \X Nodes :
        \E i \in 1..Len(artifact.dependencyDag.keys) :
            /\ artifact.dependencyDag.keys[i] = e[1]
            /\ e[2] \in Range(artifact.dependencyDag.deps[i])}

\* the listed dependencies that are no key of the map, one per listing
DanglingEdges ==
    {<<i, j>> \in (1..MaxDagKeys) \X (1..Cardinality(Nodes)) :
        /\ i <= Len(artifact.dependencyDag.keys)
        /\ j <= Len(artifact.dependencyDag.deps[i])
        /\ artifact.dependencyDag.deps[i][j]
              \notin Range(artifact.dependencyDag.keys)}

\* the closed walks of the map: they start and end with the same node and
\* every consecutive pair is a dependency edge
DagCycles ==
    {p \in UNION {[1..n -> Nodes] : n \in 2..(Cardinality(Nodes) + 1)} :
        /\ p[1] = p[Len(p)]
        /\ \A k \in 1..(Len(p) - 1) : <<p[k], p[k + 1]>> \in DagEdges}

\* C23: validateDag returns score 100 with no issue exactly when the map has
\* no cycle and every listed dependency is a key; otherwise the score is 0;
\* every listed dependency that is no key yields exactly one error, whether
\* or not a cycle error is reported as well.
C23_DagScore ==
    (report # NoReport /\ artifact.dependencyDag.present)
    => LET r == report.breakdown.dag
       IN /\ r.score = (IF DagCycles = {} /\ DanglingEdges = {} THEN 100 ELSE 0)
          /\ (r.score = 100) = (r.errors + r.warnings = 0)
          /\ r.errors - (IF r.cycle # <<>> THEN 1 ELSE 0)
                = Cardinality(DanglingEdges)

\* a validated map with a cycle and a dependency on an unknown story
C23_Witness ==
    /\ report # NoReport
    /\ artifact.dependencyDag.present
    /\ DagCycles # {}
    /\ DanglingEdges # {}
    /\ report.breakdown.dag.errors = 1 + Cardinality(DanglingEdges)

\* C24: when the map has a cycle, validateDag reports one cycle error and the
\* path it names is a cycle of the map: it starts and ends with the same node
\* and every consecutive pair is a dependency edge; for
\* {A: [B], B: [C], C: [A]} the path is A, B, C, A.
C24_ReportedCycleIsReal ==
    (report # NoReport /\ artifact.dependencyDag.present)
    => /\ DagCycles # {} => report.breakdown.dag.cycle \in DagCycles
       /\ DagCycles = {} => report.breakdown.dag.cycle = <<>>
       /\ (/\ artifact.dependencyDag.keys = <<"S1-001", "S1-002", "S1-003">>
           /\ artifact.dependencyDag.deps
                 = << <<"S1-002">>, <<"S1-003">>, <<"S1-001">> >>)
          => report.breakdown.dag.cycle
                = <<"S1-001", "S1-002", "S1-003", "S1-001">>

\* a validated map whose cycle of two stories is reached from a first key
\* that is not on it
C24_Witness ==
    /\ report # NoReport
    /\ Len(report.breakdown.dag.cycle) = 3
    /\ artifact.dependencyDag.keys[1] \notin Range(report.breakdown.dag.cycle)

\* the citation defects of the validated input: a decision whose
\* verification_source is missing or no http/https URL, a decision whose
\* verified_at is missing or no valid date, a tech-stack entry whose version
\* is missing or "latest"
CitationDefects ==
    Cardinality({i \in 1..Len(artifact.decisions) :
                    artifact.decisions[i].verification_source
                       \notin {"https://example.com/a", "http://example.com/a"}})
    + Cardinality({i \in 1..Len(artifact.decisions) :
                      \/ ~artifact.decisions[i].verified_at.given
                      \/ ~artifact.decisions[i].verified_at.wellFormed})
    + Cardinality({i \in 1..Len(artifact.techStack.techs) :
                      artifact.techStack.techs[i].version \in {"", "latest"}})

\* C25: validateCitations gives score 0 whenever some decision's
\* verification_source is missing or no http/https URL, or its verified_at is
\* missing or no valid date, or some tech-stack entry's version is missing or
\* "latest"; every such defect is reported as an error; with no error the
\* score is max(0, 100 - 10 * number of warnings).
C25_CitationDefectsAreErrors ==
    report # NoReport
    => LET r == report.breakdown.citations
       IN /\ CitationDefects > 0 => r.score = 0
          /\ r.errors >= CitationDefects
          /\ r.errors = 0
             => r.score = (IF r.warnings >= 10 THEN 0 ELSE 100 - 10 * r.warnings)

\* the decisions of the validated input whose verification date is well
\* formed and more than 90 days old
StaleDecisions ==
    {i \in 1..Len(artifact.decisions) :
        /\ artifact.decisions[i].verified_at.given
        /\ artifact.decisions[i].verified_at.wellFormed
        /\ artifact.decisions[i].verified_at.ageDays > 90}

\* C26: every decision with fewer than two alternatives_considered (none, or
\* exactly one) yields a citation issue of its own, besides the issues for
\* its source and its date.
C26_TwoAlternativesRequired ==
    report # NoReport
    => report.breakdown.citations.warnings - Cardinality(StaleDecisions)
          = Cardinality({i \in 1..Len(artifact.decisions) :
                           artifact.decisions[i].alternatives_considered < 2})

\* the incompletion markers in the code of a step: the matches of the
\* incomplete patterns, and the empty bodies outside a type definition
MarkersIn(code) ==
    Cardinality({<<p, m>> \in PatternNames \X UNION {code.marks[q] : q \in PatternNames} :
                    m \in code.marks[p]})
    + (IF code.typeContext THEN 0 ELSE code.emptyBodies)

\* the markers in all the steps of the validated input
MarkersFound ==
    Sum([i \in 1..Len(artifact.stories) |->
           Sum([j \in 1..Len(artifact.stories[i].steps) |->
                  MarkersIn(artifact.stories[i].steps[j].code)])])

\* C27: validateCompleteness gives score 100 exactly when no incompletion
\* marker is found in any step's code; otherwise the score is 100 less 5 per
\* issue and never below 0; every issue is an error, and any issue makes
\* passes false in the report of validateAll.
C27_CompletenessScore ==
    report # NoReport
    => LET r == report.breakdown.completeness
       IN /\ (r.score = 100) = (MarkersFound = 0)
          /\ r.score = (IF MarkersFound >= 20 THEN 0 ELSE 100 - 5 * MarkersFound)
          /\ r.score >= 0
          /\ r.errors = MarkersFound
          /\ r.warnings = 0
          /\ MarkersFound > 0 => ~report.passes

\* a validated input with more than twenty markers: the score is at its floor
C27_Witness ==
    /\ report # NoReport
    /\ MarkersFound > 20
    /\ report.breakdown.completeness.score = 0

\* C28: the schema check is a function of its input alone: whatever was
\* examined before, every schema that contains an incompletion marker gets
\* its "incomplete code" error, next to one error for mismatched braces and
\* one for mismatched parentheses, and the score is 100 exactly when there
\* is no error.
C28_ValidatorsArePure ==
    report # NoReport
    => LET expected ==
               Sum([i \in 1..Len(artifact.schemas) |->
                      (IF artifact.schemas[i].openBraces
                             # artifact.schemas[i].closeBraces THEN 1 ELSE 0)
                      + (IF artifact.schemas[i].openParens
                               # artifact.schemas[i].closeParens THEN 1 ELSE 0)
                      + (IF \E p \in PatternNames :
                               artifact.schemas[i].marks[p] # {} THEN 1 ELSE 0)])
       IN /\ report.breakdown.schemas.errors = expected
          /\ report.breakdown.schemas.score = (IF expected = 0 THEN 100 ELSE 0)

\* C29: the phase from which the validation loop restarts follows the
\* failing category of the quality report: design when the citations fail,
\* decomposition when completeness (schemas, atomic) fails.
C29_RestartFollowsCategory ==
    [][(/\ Len(stack) > 0
        /\ Top.fn = "validation"
        /\ Top.pc = "await"
        /\ evCount' # evCount
        /\ lastEvent'.type = "loop_back")
       => lastEvent'.phase
             = (IF phases'["validation"].output.failing = "citations"
                THEN "design" ELSE "decomposition")
      ]_vars

\* C30: a stale source is non-blocking: decisions whose only defect is a
\* verification date more than 90 days old yield a warning each and no
\* error, and when nothing else is wrong in the input the report of
\* validateAll still has passes = TRUE.
C30_StaleSourceIsNonBlocking ==
    (/\ report # NoReport
     /\ StaleDecisions # {}
     /\ CitationDefects = 0
     /\ ~artifact.techStack.present
     /\ \A i \in 1..Len(artifact.decisions) :
           artifact.decisions[i].alternatives_considered >= 2)
    => /\ report.breakdown.citations.errors = 0
       /\ report.breakdown.citations.warnings = Cardinality(StaleDecisions)
       /\ (\A c \in Categories \ {"citations"} :
              report.breakdown[c].score = 100)
          => report.passes

\* C31: addAtomicTask returns the given spec with the task appended when the
\* task lists at most 3 files and throws, the given spec staying as it was,
\* when it lists more; so after any sequence of addAtomicTask calls from
\* initializeSpec() every task lists at most 3 files and calculateQuality
\* reports atomicTaskCompliance = 100.
C31_OnlyAtomicTasksEnter ==
    /\ \A i \in 1..Len(engine.spec.tasks) : Len(engine.spec.tasks[i]) <= 3
    /\ engine.op = "addAtomicTask"
       => IF Len(engine.task) <= 3
          THEN /\ ~engine.threw
               /\ engine.spec.tasks = Append(engine.given.tasks, engine.task)
               /\ engine.spec.quality = engine.given.quality
          ELSE /\ engine.threw
               /\ engine.spec = engine.given
    /\ engine.op = "calculateQuality"
       => /\ engine.spec.quality.atomicTaskCompliance = 100
          /\ engine.spec.tasks = engine.given.tasks

\* calculateQuality was called on a spec of MaxTasks tasks, one of them of
\* exactly three files
C31_Witness ==
    /\ engine.op = "calculateQuality"
    /\ Len(engine.spec.tasks) = MaxTasks
    /\ \E i \in 1..MaxTasks : Len(engine.spec.tasks[i]) = 3

\* C32: with offline = true verifyDecisions uses the cache only: no live
\* search is made, the cache file is not written, and the call fails when a
\* decision's query is not in the cache; in every mode a query that is in
\* the cache (as loaded, or as extended by this call) is not fetched, and
\* the cache is saved only when a new entry was added.
C32_OfflineUsesCacheOnly ==
    verify.pc # "idle"
    => /\ verify.offline
          => /\ verify.fetched = <<>>
             /\ ~verify.saved
             /\ cacheFile = verify.loaded
             /\ (/\ verify.pc = "done"
                 /\ \E k \in 1..Len(verify.decisions) :
                       verify.decisions[k] \notin verify.loaded)
                => verify.outcome = "threw"
       /\ \A k \in 1..Len(verify.fetched) :
             /\ verify.fetched[k] \notin verify.loaded
             /\ \A j \in 1..(k - 1) : verify.fetched[j] # verify.fetched[k]
       /\ verify.saved => (verify.fetched # <<>> /\ cacheFile # verify.loaded)
       /\ ~verify.saved => cacheFile = verify.loaded

\* a live call has returned after a cache hit on an entry it had fetched
\* itself, and has saved the cache
C32_Witness ==
    /\ verify.pc = "done"
    /\ ~verify.offline
    /\ verify.outcome = "returned"
    /\ verify.saved
    /\ Len(verify.decisions) > Len(verify.fetched)

\* C33: every validation invocation receives the stories and dependency
\* graph of the most recent decomposition output and the schemas and
\* decisions of the most recent design output, also after a loop-back has
\* re-run design or decomposition.
C33_ValidationSeesLatestArtifact ==
    InFlight = "validation"
    => /\ phases["validation"].input.decomposition
             = phases["decomposition"].output.ver
       /\ phases["validation"].input.design = phases["design"].output.ver

\* C34: every challenge invocation receives the output of the most recent
\* discovery execution, every decomposition invocation the output of the most
\* recent design execution, and the synthesis input consists of the latest
\* output of each of the five earlier phases.
C34_LoopsSeeLatestOutputs ==
    /\ InFlight = "challenge"
       => phases["challenge"].input.discovery = phases["discovery"].output.ver
    /\ InFlight = "decomposition"
       => phases["decomposition"].input.design = phases["design"].output.ver
    /\ InFlight = "synthesis"
       => \A p \in {"discovery", "challenge", "design", "decomposition",
                    "validation"} :
             phases["synthesis"].input[p] = phases[p].output.ver

\* C35: total_iterations equals the sum of the iterations counters of the six
\* phases: it counts every successful agent execution of the run, the
\* discovery executions included.
C35_TotalIsSumOfPhases ==
    total_iterations
       = phases["discovery"].iterations + phases["challenge"].iterations
         + phases["design"].iterations + phases["decomposition"].iterations
         + phases["validation"].iterations + phases["synthesis"].iterations

\* C36: for every phase the iterations counter is at most max_iterations: 1
\* for discovery, design and synthesis, the configured budget for challenge
\* and decomposition, the configured cap for validation.
C36_IterationsWithinMaximum ==
    \A p \in Phases : phases[p].iterations <= phases[p].max_iterations

\* C37: a start() that has ended has emitted exactly one terminal event, and
\* it is the last event of the run: pipeline_completed exactly when start()
\* returned with status completed, pipeline_failed exactly when it raised
\* with status failed; a run that has not ended has emitted neither
C37_OneTerminalEvent ==
    /\ evCount["pipeline_completed"] + evCount["pipeline_failed"]
          = (IF result.state \in {"resolved", "rejected"} THEN 1 ELSE 0)
    /\ evCount["pipeline_completed"] = 1
          <=> (result.state = "resolved" /\ status = "completed")
    /\ evCount["pipeline_failed"] = 1
          <=> (result.state = "rejected" /\ status = "failed")
    /\ result.state = "resolved" => lastEvent.type = "pipeline_completed"
    /\ result.state = "rejected" => lastEvent.type = "pipeline_failed"

\* start() has raised at the validation cap, after the phase_failed event of
\* the validation phase and one pipeline_failed event
C37_Witness ==
    /\ result = [state |-> "rejected", error |-> CapError]
    /\ evCount["phase_failed"] = 1
    /\ evCount["pipeline_failed"] = 1
    /\ lastEvent.type = "pipeline_failed"

\* C38: once an agent call has failed, the phase of that agent is the only
\* failed phase, no other phase holds an error, and one phase_failed event
\* has been emitted by the time start() has ended, never more
C38_OnlyFailingPhaseFails ==
    ~NoAgentFailed =>
        /\ \A p \in Phases \ {failure.phase} :
              /\ phases[p].status # "failed"
              /\ phases[p].error = NoError
        /\ evCount["phase_failed"] <= 1
        /\ Ended => evCount["phase_failed"] = 1

\* the largest number of agent calls of a run with finite budgets: discovery
\* and challenge within the challenge budget, one round of design and
\* decomposition per validation call, the validation calls, and synthesis
CallBound(cfg) ==
    LET rounds == Max(1, cfg.decomposition_validation_max)
    IN Max(1, cfg.discovery_challenge_max) + cfg.discovery_challenge_max
       + rounds * (Max(1, cfg.design_decomposition_max)
                   + cfg.design_decomposition_max)
       + rounds + 1

FiniteBudgets == config.decomposition_validation_max # Unlimited

\* C39: with three finite loop budgets, a run makes no more agent calls than
\* the budgets allow, and once started it ends, completed or failed, whatever
\* signals and verdicts the agents return
C39_FiniteBudgetsTerminate ==
    /\ [](FiniteBudgets => TotalCalls <= CallBound(config))
    /\ (FiniteBudgets /\ result.state = "pending")
          ~> (Ended /\ status \in {"completed", "failed"})

\* a run with budgets 2, 2, 2 has completed after every loop looped back as
\* often as its budget allows: 15 agent calls
C39_Witness ==
    /\ config.discovery_challenge_max = 2
    /\ config.design_decomposition_max = 2
    /\ config.decomposition_validation_max = 2
    /\ TotalCalls = CallBound(config)
    /\ result.state = "resolved"
    /\ status = "completed"

\* C40: a run in which cancel() was requested comes to an end, also with
\* decomposition_validation_max = 'unlimited' and a validation agent that
\* never passes.  Under 'unlimited' the validation loop decides on the
\* verdict alone, so it goes on for ever unless the request ends it at the
\* first verdict that follows: no validation call is started once cancel()
\* was requested
C40_CancelEndsUnlimitedLoop ==
    (config.decomposition_validation_max = Unlimited /\ cancelReq
        /\ InFlight = "validation")
       => ~lateCalls.afterCancel

============================================================================
